---- MODULE Spec2Model ----
(***************************************************************************)
(* Hybrid processor simulator: the tiered classical cache                  *)
(* (ClassicalMemory), the qubit register and gate engine (QuantumService), *)
(* the tick scheduler (SimulationService), the task executor               *)
(* (HybridProcessor) and its qubit array (QuantumMemory), as state         *)
(* machines.                                                               *)
(*                                                                         *)
(* The next-state relations share one set of variables: NextCache and      *)
(* NextMemory drive ClassicalMemory alone, NextSim and NextTicks the       *)
(* scheduler with its register, NextProc the task executor with the        *)
(* ClassicalMemory and the QuantumMemory it owns, and NextGates the gate   *)
(* engines QuantumService and QuantumMemory on their own.                  *)
(***************************************************************************)
EXTENDS Integers, Sequences, FiniteSets, TLC

(***************************************************************************)
(* Bounds of the model.                                                    *)
(***************************************************************************)
\* Number of distinct cache addresses the callers use.
NumAddr == 3
\* Largest value of the millisecond clock (Date.now()) that is explored.
MaxTime == 2
\* Largest number of read/write calls (the length of accessHistory).
MaxOps == 5
\* Tier capacities of getCacheSize, scaled down from 32 / 256 / 8192 so that
\* a full tier and an eviction are reached within MaxOps calls.
L1Size == 2
L2Size == 3
L3Size == 4

\* Largest number of qubits a start configuration asks for.
MaxQubits == 2
\* Largest number of startSimulation calls that get past the running check.
MaxStarts == 2
\* Largest stepCount a tick is explored from.
MaxSteps == 4
\* The cap of performanceHistory in recordPerformance, scaled down from 1000
\* so that a full history is reached within MaxSteps ticks.
HistoryCap == 2

\* Largest number of executeTask calls.
MaxTasks == 3

\* Number of distinct qubit ids the callers of QuantumService use.
NumQubitIds == 3
\* Largest number of calls made on a QuantumService directly.
MaxQsCalls == 5
\* The number of qubits of a QuantumMemory (16 unless configured).
QmQubits == 3
\* Largest number of calls made on a QuantumMemory directly.
MaxQmCalls == 4
\* Largest number of executeTask calls in the optimization runs.
MaxOptimizations == 2
\* Largest number of executeTask calls in the parallel runs.
MaxParallel == 2
\* Largest number of ticks of a run in the runs that entangle.
EntangleSteps == 2
\* Largest number of responses, and of executeTask calls, in the runs of the
\* controller.
MaxRequests == 4
MaxControllerTasks == 2
\* Largest number of ticks of a run in the runs with counters.
MetricSteps == 2
\* executeCircuit calls are made while quantumOps is below this
MaxCircuitOps == 2

Addresses == 1..NumAddr
\* JavaScript null / undefined, where a string or a record is expected.
Null == "null"
\* JavaScript null where an address is expected (no address is 0).
NullAddress == 0
\* JavaScript null where a qubit id is expected (ids are 0, 1, ...).
NoQubit == -1
\* JavaScript null where a timer handle is expected (handles are 1, 2, ...).
NoTimer == 0
\* JavaScript undefined where a number is expected in a task's values.
UndefinedValue == -1
\* The amplitudes 1 and 0.707 of QuantumMemory, in thousandths.
Unit == 1000
SqrtHalf == 707

(***************************************************************************)
(* State.                                                                  *)
(***************************************************************************)
VARIABLES
    \* ---- ClassicalMemory ----
    now,            \* the clock read by Date.now()
    memory,         \* this.memory: a Map from the addresses written to their entry
    cacheL1,        \* this.cache.L1: a Map, kept in insertion order
    cacheL2,        \* this.cache.L2
    cacheL3,        \* this.cache.L3
    accessHistory,  \* this.accessHistory
    hitRates,       \* this.hitRates
    memRet,         \* what the last read / write call returned
    \* ---- QuantumService ----
    quantumStates,      \* this.quantumStates: a Map, kept in insertion order
    entanglementPairs,  \* the keys of this.entanglementPairs
    qsCalls,            \* the number of calls made on it directly so far
    qsRet,              \* how the last call made on it directly ended
    \* ---- SimulationService ----
    isRunning,          \* this.isRunning
    simulationInterval, \* this.simulationInterval: a timer handle or NoTimer
    stepCount,          \* this.stepCount
    startTime,          \* this.startTime: <<>> for null, <<t>> when set
    metrics,            \* this.metrics
    performanceHistory, \* this.performanceHistory
    currentPerformance, \* this.currentPerformance: <<>> while undefined
    currentAlgorithm,   \* this.currentAlgorithm
    classicalMemorySize,\* this.classicalMemorySize: <<>> while undefined
    timers,             \* the armed setInterval timers, each with its hybridMode
    timerCount,         \* the number of startSimulation calls let in so far
    pendingStarts,      \* the startSimulation calls suspended at an await
    lastTick,           \* how the last simulationStep ended: completed or caught
    simRet,             \* what the last scheduler call returned
    \* ---- HybridProcessor ----
    executionHistory,   \* this.executionHistory
    pendingTasks,       \* the executeTask calls suspended at their await
    taskCount,          \* the number of executeTask calls made so far
    procRet,            \* how the last executeTask call ended
    \* ---- QuantumMemory ----
    quantumMemory,      \* a QuantumMemory: the one this.quantumMemory of the
                        \* HybridProcessor holds, or one used on its own
    qmCalls,            \* the number of calls made on it directly so far
    qmRet,              \* how the last call made on it directly ended
    \* ---- ProcessorController and the HybridProcessor it drives ----
    processorIsRunning, \* this.isRunning of the HybridProcessor
    response            \* the last response a handler sent, with its number

cacheVars == <<now, memory, cacheL1, cacheL2, cacheL3, accessHistory, hitRates, memRet>>

quantumVars == <<quantumStates, entanglementPairs>>

simVars == <<isRunning, simulationInterval, stepCount, startTime, metrics,
             performanceHistory, currentPerformance, currentAlgorithm,
             classicalMemorySize, timers, timerCount, pendingStarts, lastTick, simRet>>

procVars == <<executionHistory, pendingTasks, taskCount, procRet>>

qmVars == <<quantumMemory, qmCalls, qmRet>>

qsCallVars == <<qsCalls, qsRet>>

ctlVars == <<processorIsRunning, response>>

vars == <<cacheVars, quantumVars, simVars, procVars, qmVars, qsCallVars, ctlVars>>

(***************************************************************************)
(* JavaScript Map, as a sequence of [address, entry] in insertion order.   *)
(***************************************************************************)
MapHas(m, a) == \E i \in 1..Len(m) : m[i].address = a

MapIndex(m, a) == CHOOSE i \in 1..Len(m) : m[i].address = a

MapGet(m, a) == m[MapIndex(m, a)].entry

\* Map.set: an existing key keeps its position, a new key goes last.
MapSet(m, a, e) ==
    IF MapHas(m, a)
    THEN [m EXCEPT ![MapIndex(m, a)] = [address |-> a, entry |-> e]]
    ELSE Append(m, [address |-> a, entry |-> e])

\* Map.delete: removing an absent key (also null) changes nothing.
MapDelete(m, a) ==
    IF MapHas(m, a)
    THEN LET i == MapIndex(m, a)
         IN  SubSeq(m, 1, i - 1) \o SubSeq(m, i + 1, Len(m))
    ELSE m

MapKeys(m) == {m[i].address : i \in 1..Len(m)}

(***************************************************************************)
(* ClassicalMemory.                                                        *)
(***************************************************************************)
getCacheSize(level) ==
    CASE level = "L1" -> L1Size
      [] level = "L2" -> L2Size
      [] level = "L3" -> L3Size
      [] OTHER -> L1Size

\* The scan of findLRUAddress from position i on: oldestTime starts at
\* Date.now() and only an entry strictly older replaces the candidate.
RECURSIVE LRUScan(_, _, _, _)
LRUScan(cache, i, oldestTime, oldestAddress) ==
    IF i > Len(cache)
    THEN oldestAddress
    ELSE IF cache[i].entry.lastAccessed < oldestTime
         THEN LRUScan(cache, i + 1, cache[i].entry.lastAccessed, cache[i].address)
         ELSE LRUScan(cache, i + 1, oldestTime, oldestAddress)

findLRUAddress(cache, scanTime) == LRUScan(cache, 1, scanTime, NullAddress)

\* updateCache on one tier: evict when full, then store a copy of the entry
\* ({...entry, cachedAt}); cachedAt is never read and is left out.
updateCache(cache, level, address, entry, scanTime) ==
    LET kept == IF Len(cache) >= getCacheSize(level)
                THEN MapDelete(cache, findLRUAddress(cache, scanTime))
                ELSE cache
    IN  MapSet(kept, address, entry)

\* entry.accessCount++; entry.lastAccessed = timestamp
Touch(e, timestamp) ==
    [e EXCEPT !.accessCount = @ + 1, !.lastAccessed = timestamp]

\* The payload of the next write: every write call carries a payload of its
\* own, so that a stale payload can be told from the current one.
NextPayload == Len(accessHistory) + 1

\* The changes write(address, data) makes to the backing store, to L1 and to
\* the access log, on st = [memory, cacheL1, accessHistory].
writeState(st, address, data, timestamp) ==
    LET entry == [data |-> data, timestamp |-> timestamp,
                  accessCount |-> 0, lastAccessed |-> timestamp]
    IN  [memory |-> [a \in DOMAIN st.memory \cup {address} |->
                        IF a = address THEN entry ELSE st.memory[a]],
         cacheL1 |-> updateCache(st.cacheL1, "L1", address, entry, timestamp),
         accessHistory |-> Append(st.accessHistory,
             [operation |-> "WRITE", address |-> address,
              timestamp |-> timestamp, cacheHit |-> FALSE, cacheLevel |-> Null])]

\* A write that stores the entry in the backing store and leaves L1 alone.
WriteBackingOnly(address, data) ==
    /\ Len(accessHistory) < MaxOps
    /\ LET st == writeState([memory |-> memory, cacheL1 |-> cacheL1,
                             accessHistory |-> accessHistory], address, data, now)
       IN  /\ memory' = st.memory
           /\ accessHistory' = st.accessHistory
           /\ memRet' = [op |-> "write", address |-> address, timestamp |-> now,
                         threw |-> data = UndefinedValue,
                         error |-> IF data = UndefinedValue THEN "TypeError"
                                   ELSE Null]
    /\ UNCHANGED <<now, cacheL1, cacheL2, cacheL3, hitRates>>

\* A write that stores the entry in L2 as well as in L1.
WriteIntoL2(address, data) ==
    /\ Len(accessHistory) < MaxOps
    /\ LET st == writeState([memory |-> memory, cacheL1 |-> cacheL1,
                             accessHistory |-> accessHistory], address, data, now)
       IN  /\ memory' = st.memory
           /\ cacheL1' = st.cacheL1
           /\ cacheL2' = updateCache(cacheL2, "L2", address, st.memory[address], now)
           /\ accessHistory' = st.accessHistory
           /\ memRet' = [op |-> "write", address |-> address, timestamp |-> now,
                         threw |-> data = UndefinedValue,
                         error |-> IF data = UndefinedValue THEN "TypeError"
                                   ELSE Null]
    /\ UNCHANGED <<now, cacheL3, hitRates>>

\* write(address, data). The Date.now() calls made within one call (lines 15,
\* 95, 104) return the same millisecond; time passes between calls (ClockTick).
\* The return statement computes JSON.stringify(data).length, which throws a
\* TypeError for a payload JSON.stringify gives undefined for.
Write(address, data) ==
    /\ Len(accessHistory) < MaxOps
    /\ LET st == writeState([memory |-> memory, cacheL1 |-> cacheL1,
                             accessHistory |-> accessHistory], address, data, now)
       IN  /\ memory' = st.memory
           /\ cacheL1' = st.cacheL1
           /\ accessHistory' = st.accessHistory
           /\ memRet' = [op |-> "write", address |-> address, timestamp |-> now,
                         threw |-> data = UndefinedValue,
                         error |-> IF data = UndefinedValue THEN "TypeError"
                                   ELSE Null]
    /\ UNCHANGED <<now, cacheL2, cacheL3, hitRates>>

\* read(address), hit in L1: the entry object is the one held by L1.
ReadL1(address, timestamp) ==
    LET entry == Touch(MapGet(cacheL1, address), timestamp)
    IN  /\ cacheL1' = MapSet(cacheL1, address, entry)
        /\ hitRates' = [hitRates EXCEPT !.L1 = @ + 1]
        /\ memRet' = [op |-> "read", found |-> TRUE, entry |-> entry, cacheLevel |-> "L1"]
        /\ UNCHANGED <<memory, cacheL2, cacheL3>>

\* read(address), hit in L2: L1 gets a copy, then L2's object is touched.
ReadL2(address, timestamp, scanTime) ==
    LET found == MapGet(cacheL2, address)
        entry == Touch(found, timestamp)
    IN  /\ cacheL1' = updateCache(cacheL1, "L1", address, found, scanTime)
        /\ cacheL2' = MapSet(cacheL2, address, entry)
        /\ hitRates' = [hitRates EXCEPT !.L2 = @ + 1]
        /\ memRet' = [op |-> "read", found |-> TRUE, entry |-> entry, cacheLevel |-> "L2"]
        /\ UNCHANGED <<memory, cacheL3>>

\* read(address), hit in L3: L2 and L1 get copies, then L3's object is touched.
ReadL3(address, timestamp, scanTime) ==
    LET found == MapGet(cacheL3, address)
        entry == Touch(found, timestamp)
    IN  /\ cacheL2' = updateCache(cacheL2, "L2", address, found, scanTime)
        /\ cacheL1' = updateCache(cacheL1, "L1", address, found, scanTime)
        /\ cacheL3' = MapSet(cacheL3, address, entry)
        /\ hitRates' = [hitRates EXCEPT !.L3 = @ + 1]
        /\ memRet' = [op |-> "read", found |-> TRUE, entry |-> entry, cacheLevel |-> "L3"]
        /\ UNCHANGED memory

\* A read that serves a backing entry without putting it into L1.
ReadMemoryNoPromote(address, timestamp, scanTime) ==
    IF address \in DOMAIN memory
    THEN LET entry == Touch(memory[address], timestamp)
         IN  /\ memory' = [memory EXCEPT ![address] = entry]
             /\ memRet' = [op |-> "read", found |-> TRUE, entry |-> entry, cacheLevel |-> Null]
             /\ UNCHANGED <<cacheL1, cacheL2, cacheL3, hitRates>>
    ELSE /\ memRet' = [op |-> "read", found |-> FALSE]
         /\ UNCHANGED <<memory, cacheL1, cacheL2, cacheL3, hitRates>>

\* A read that puts the backing entry into L2 as well as into L1.
ReadMemoryIntoBoth(address, timestamp, scanTime) ==
    IF address \in DOMAIN memory
    THEN LET found == memory[address]
             entry == Touch(found, timestamp)
         IN  /\ cacheL1' = updateCache(cacheL1, "L1", address, found, scanTime)
             /\ cacheL2' = updateCache(cacheL2, "L2", address, found, scanTime)
             /\ memory' = [memory EXCEPT ![address] = entry]
             /\ memRet' = [op |-> "read", found |-> TRUE, entry |-> entry, cacheLevel |-> Null]
             /\ UNCHANGED <<cacheL3, hitRates>>
    ELSE /\ memRet' = [op |-> "read", found |-> FALSE]
         /\ UNCHANGED <<memory, cacheL1, cacheL2, cacheL3, hitRates>>

\* read(address), no tier holds it: L1 gets a copy of the backing entry as it
\* is, then the backing entry is touched.
ReadMemory(address, timestamp, scanTime) ==
    IF address \in DOMAIN memory
    THEN LET found == memory[address]
             entry == Touch(found, timestamp)
         IN  /\ cacheL1' = updateCache(cacheL1, "L1", address, found, scanTime)
             /\ memory' = [memory EXCEPT ![address] = entry]
             /\ memRet' = [op |-> "read", found |-> TRUE, entry |-> entry, cacheLevel |-> Null]
             /\ UNCHANGED <<cacheL2, cacheL3, hitRates>>
    ELSE /\ memRet' = [op |-> "read", found |-> FALSE]
         /\ UNCHANGED <<memory, cacheL1, cacheL2, cacheL3, hitRates>>

\* hits / totalAccesses * 100, as the fraction num / den.
HitRate(hits, totalAccesses) ==
    IF totalAccesses > 0 THEN [num |-> hits * 100, den |-> totalAccesses]
    ELSE [num |-> 0, den |-> 1]

\* The rate is the given number of percent.
IsPercent(rate, percent) == rate.num = percent * rate.den

\* getMemoryStats: the cacheStats of its result.
getMemoryStats ==
    /\ memRet' = [op |-> "getMemoryStats",
                  L1 |-> [size |-> Len(cacheL1),
                          hitRate |-> HitRate(hitRates.L1, Len(accessHistory))],
                  L2 |-> [size |-> Len(cacheL2),
                          hitRate |-> HitRate(hitRates.L2, Len(accessHistory))],
                  L3 |-> [size |-> Len(cacheL3),
                          hitRate |-> HitRate(hitRates.L3, Len(accessHistory))]]
    /\ UNCHANGED <<now, memory, cacheL1, cacheL2, cacheL3, accessHistory, hitRates>>

ReadLevel(address) ==
    IF MapHas(cacheL1, address) THEN "L1"
    ELSE IF MapHas(cacheL2, address) THEN "L2"
    ELSE IF MapHas(cacheL3, address) THEN "L3"
    ELSE Null

Read(address) ==
    /\ Len(accessHistory) < MaxOps
    /\ LET timestamp == now
           cacheLevel == ReadLevel(address)
       IN  /\ CASE cacheLevel = "L1" -> ReadL1(address, timestamp)
                [] cacheLevel = "L2" -> ReadL2(address, timestamp, now)
                [] cacheLevel = "L3" -> ReadL3(address, timestamp, now)
                [] OTHER -> ReadMemory(address, timestamp, now)
           /\ accessHistory' = Append(accessHistory,
                  [operation |-> "READ", address |-> address,
                   timestamp |-> timestamp, cacheHit |-> cacheLevel # Null,
                   cacheLevel |-> cacheLevel])
    /\ UNCHANGED now

(***************************************************************************)
(* QuantumService: the qubit register and the gate engine.                 *)
(*                                                                         *)
(* An amplitude pair (alpha, beta) with real parts a * 2^(-k/2) and        *)
(* b * 2^(-k/2) and no imaginary part is [kind |-> "real", a, b, k], kept  *)
(* in lowest terms; floating point is read as exact real arithmetic.  A    *)
(* pair whose beta was turned by controlledPhaseGate has a value outside   *)
(* this form and is kept as ComplexAmp: both components count as non-zero  *)
(* and a measurement of it may give either outcome.  lastUpdate and        *)
(* coherenceTime only feed the decay factor and the coherence figures,     *)
(* which are not modelled.                                                 *)
(***************************************************************************)
RECURSIVE Canon(_)
Canon(amp) ==
    IF amp.k >= 2 /\ amp.a % 2 = 0 /\ amp.b % 2 = 0
    THEN Canon([amp EXCEPT !.a = @ \div 2, !.b = @ \div 2, !.k = @ - 2])
    ELSE amp

RealAmp(a, b, k) == Canon([kind |-> "real", a |-> a, b |-> b, k |-> k])

ComplexAmp == [kind |-> "complex", a |-> 1, b |-> 1, k |-> 0]

Pow2(n) == 2 ^ n

\* alpha = 1, beta = 0 and alpha = 0, beta = 1
BasisZero == RealAmp(1, 0, 0)
BasisOne == RealAmp(0, 1, 0)

\* The exponent m with a^2 + b^2 = 2^m.
NormExponent(amp) ==
    CHOOSE m \in 0..(2 * amp.k + 2) : Pow2(m) = amp.a * amp.a + amp.b * amp.b

\* normalizeQubit: divide both amplitudes by the norm, when it is positive.
normalizeQubit(amp) ==
    IF amp.kind = "complex" THEN amp
    ELSE IF amp.a = 0 /\ amp.b = 0 THEN amp
    ELSE RealAmp(amp.a, amp.b, NormExponent(amp))

\* alpha' = (alpha + beta) / sqrt2, beta' = (alpha - beta) / sqrt2, normalized
HadamardAmp(amp) ==
    IF amp.kind = "complex" THEN amp
    ELSE normalizeQubit(RealAmp(amp.a + amp.b, amp.a - amp.b, amp.k + 1))

\* An xGate that assigns beta to alpha and then alpha to beta.
XAmpNoTemp(amp) ==
    IF amp.kind = "complex" THEN amp
    ELSE RealAmp(amp.b, amp.b, amp.k)

\* swap alpha and beta
XAmp(amp) ==
    IF amp.kind = "complex" THEN amp
    ELSE RealAmp(amp.b, amp.a, amp.k)

\* negate beta
ZAmp(amp) ==
    IF amp.kind = "complex" THEN amp
    ELSE RealAmp(amp.a, 0 - amp.b, amp.k)

\* alpha.real !== 0 && beta.real !== 0
InSuperposition(amp) == amp.kind = "complex" \/ (amp.a # 0 /\ amp.b # 0)

\* beta.real !== 0 || beta.imaginary !== 0
BetaNonZero(amp) == amp.kind = "complex" \/ amp.b # 0

\* An applyDecoherence that returns without calling normalizeQubit.
DecohereAmpNoNormalize(amp) == amp

\* applyDecoherence on the amplitudes: both are scaled by the same positive
\* decay factor when in superposition, then normalizeQubit divides by the
\* norm, which undoes the scaling.
DecohereAmp(amp) == normalizeQubit(amp)

\* The outcomes Math.random() < prob0 ? 0 : 1 can give, prob0 = |alpha|^2.
MeasureOutcomes(amp) ==
    IF amp.kind = "complex" THEN {0, 1}
    ELSE IF amp.a = 0 THEN {1}
    ELSE IF amp.a * amp.a >= Pow2(amp.k) THEN {0}
    ELSE {0, 1}

\* The register is a Map from id to qubit, here in insertion order.
HasQubit(qs, id) == \E i \in 1..Len(qs) : qs[i].id = id

QubitIndex(qs, id) == CHOOSE i \in 1..Len(qs) : qs[i].id = id

GetQubit(qs, id) == qs[QubitIndex(qs, id)]

SetAmp(qs, id, amp) == [qs EXCEPT ![QubitIndex(qs, id)].amp = amp]

\* createQubit(id, alpha, beta): Map.set with a fresh, unentangled qubit.
createQubit(qs, id, amp) ==
    LET qubit == [id |-> id, amp |-> amp, isEntangled |-> FALSE,
                  entangledWith |-> NoQubit]
    IN  IF HasQubit(qs, id)
        THEN [qs EXCEPT ![QubitIndex(qs, id)] = qubit]
        ELSE Append(qs, qubit)

\* The gates below are applied to ids that are in the register (the
\* scheduler takes them from getAllStates).
hadamardGate(qs, id) == SetAmp(qs, id, HadamardAmp(GetQubit(qs, id).amp))

xGate(qs, id) == SetAmp(qs, id, XAmp(GetQubit(qs, id).amp))

zGate(qs, id) == SetAmp(qs, id, ZAmp(GetQubit(qs, id).amp))

\* entangle: qubit1 gets alpha = sqrt(0.5), beta = 0; qubit2 gets alpha = 0,
\* beta = sqrt(0.5); both are flagged and point at each other. With
\* qubitId1 = qubitId2 the assignments to qubit2 are the later ones.
entangle(qs, id1, id2) ==
    LET q1 == [GetQubit(qs, id1) EXCEPT !.amp = RealAmp(1, 0, 1),
                   !.isEntangled = TRUE, !.entangledWith = id2]
        qs1 == [qs EXCEPT ![QubitIndex(qs, id1)] = q1]
        q2 == [GetQubit(qs1, id2) EXCEPT !.amp = RealAmp(0, 1, 1),
                   !.isEntangled = TRUE, !.entangledWith = id1]
    IN  [qs1 EXCEPT ![QubitIndex(qs1, id2)] = q2]

\* entanglementPairs.set(`${qubitId1}-${qubitId2}`, ...): the key set.
entanglePairs(pairs, id1, id2) == pairs \cup {<<id1, id2>>}

\* measure with a given outcome: the qubit collapses to the basis state of
\* the outcome and so does its partner, if it has one in the register.
measure(qs, id, outcome) ==
    LET basis == IF outcome = 0 THEN BasisZero ELSE BasisOne
        q == GetQubit(qs, id)
        qs1 == SetAmp(qs, id, basis)
    IN  IF q.isEntangled /\ q.entangledWith # NoQubit /\ HasQubit(qs, q.entangledWith)
        THEN SetAmp(qs1, q.entangledWith, basis)
        ELSE qs1

\* controlledPhaseGate: nothing without both qubits or with beta = 0 on the
\* control; otherwise the target's beta is turned by the phase, which leaves
\* a zero beta zero.
controlledPhaseGate(qs, controlId, targetId) ==
    IF ~HasQubit(qs, controlId) \/ ~HasQubit(qs, targetId) THEN qs
    ELSE IF ~BetaNonZero(GetQubit(qs, controlId).amp) THEN qs
    ELSE IF ~BetaNonZero(GetQubit(qs, targetId).amp) THEN qs
    ELSE SetAmp(qs, targetId, ComplexAmp)

\* applyDecoherence(qubitId, factor)
applyDecoherenceQubit(qs, id) ==
    IF ~HasQubit(qs, id) THEN qs
    ELSE SetAmp(qs, id, DecohereAmp(GetQubit(qs, id).amp))

\* The ids of the register in Map order (getAllStates).
getAllStates(qs) == [i \in 1..Len(qs) |-> qs[i].id]

\* forEach over a list of ids with a one-qubit operation, named by its gate.
RECURSIVE ForEach(_, _, _, _)
ForEach(gate, qs, ids, i) ==
    IF i > Len(ids) THEN qs
    ELSE ForEach(gate,
                 CASE gate = "hadamard" -> hadamardGate(qs, ids[i])
                   [] gate = "z" -> zGate(qs, ids[i])
                   [] OTHER -> applyDecoherenceQubit(qs, ids[i]),
                 ids, i + 1)

\* quantumFourierTransform: for each i, Hadamard on qubit i, then a
\* controlled phase from every later qubit j onto qubit i.
RECURSIVE QFTInner(_, _, _, _)
QFTInner(qs, ids, i, j) ==
    IF j > Len(ids) THEN qs
    ELSE QFTInner(controlledPhaseGate(qs, ids[j], ids[i]), ids, i, j + 1)

RECURSIVE QFTOuter(_, _, _)
QFTOuter(qs, ids, i) ==
    IF i > Len(ids) THEN qs
    ELSE QFTOuter(QFTInner(hadamardGate(qs, ids[i]), ids, i, i + 1), ids, i + 1)

quantumFourierTransform(qs, ids) == QFTOuter(qs, ids, 1)

(***************************************************************************)
(* SimulationService: the tick scheduler.                                  *)
(***************************************************************************)
\* initializeAlgorithms: the keys of this.algorithms.
AlgorithmKeys == {"shor", "grover", "qft", "vqe"}

\* initializeAlgorithms: the steps list of each catalog entry.
AlgorithmSteps(algorithm) ==
    CASE algorithm = "shor" ->
           <<"Initialize qubits", "Create superposition", "Apply QFT",
             "Measure result">>
      [] algorithm = "grover" ->
           <<"Initialize uniform superposition", "Apply oracle",
             "Apply diffusion", "Repeat iterations">>
      [] algorithm = "qft" ->
           <<"Apply Hadamard gates", "Apply controlled rotations",
             "Reverse qubit order">>
      [] algorithm = "vqe" ->
           <<"Prepare ansatz", "Measure energy", "Classical optimization",
             "Update parameters">>

ZeroMetrics ==
    [quantumOps |-> 0, classicalOps |-> 0, memoryReads |-> 0,
     memoryWrites |-> 0, coherenceEvents |-> 0, entanglementEvents |-> 0]

\* What a tick's step hands on: the register, the pair keys, the counters,
\* and whether the measurement outcome it was given is one the qubit's
\* amplitudes allow.
StepResult(qs, pairs, m, valid) ==
    [qs |-> qs, pairs |-> pairs, metrics |-> m, valid |-> valid]

hadamardAll(qs, ids) == ForEach("hadamard", qs, ids, 1)

zAll(qs, ids) == ForEach("z", qs, ids, 1)

executeShorStep(qs, pairs, m, steps, outcome) ==
    LET ids == getAllStates(qs)
        step == steps % 4
    IN  IF Len(ids) = 0 THEN StepResult(qs, pairs, m, TRUE)
        ELSE CASE step = 0 ->
                    StepResult(hadamardAll(qs, ids), pairs,
                               [m EXCEPT !.quantumOps = @ + 1], TRUE)
               [] step = 1 ->
                    StepResult(IF Len(ids) >= 2
                               THEN controlledPhaseGate(qs, ids[1], ids[2])
                               ELSE qs,
                               pairs, [m EXCEPT !.quantumOps = @ + 1], TRUE)
               [] step = 2 ->
                    StepResult(quantumFourierTransform(qs, ids), pairs,
                               [m EXCEPT !.quantumOps = @ + Len(ids)], TRUE)
               [] OTHER ->
                    StepResult(measure(qs, ids[1], outcome), pairs,
                               [m EXCEPT !.quantumOps = @ + 1],
                               outcome \in MeasureOutcomes(GetQubit(qs, ids[1]).amp))

executeGroverStep(qs, pairs, m, steps) ==
    LET ids == getAllStates(qs)
        step == steps % 3
    IN  IF Len(ids) = 0 THEN StepResult(qs, pairs, m, TRUE)
        ELSE CASE step = 0 ->
                    StepResult(hadamardAll(qs, ids), pairs,
                               [m EXCEPT !.quantumOps = @ + Len(ids)], TRUE)
               [] step = 1 ->
                    StepResult(zGate(qs, ids[1]), pairs,
                               [m EXCEPT !.quantumOps = @ + 1], TRUE)
               [] OTHER ->
                    StepResult(hadamardAll(zAll(hadamardAll(qs, ids), ids), ids), pairs,
                               [m EXCEPT !.quantumOps = @ + Len(ids) * 3], TRUE)

executeQFTStep(qs, pairs, m) ==
    LET ids == getAllStates(qs)
    IN  IF Len(ids) = 0 THEN StepResult(qs, pairs, m, TRUE)
        ELSE StepResult(quantumFourierTransform(qs, ids), pairs,
                        [m EXCEPT !.quantumOps = @ + Len(ids) * 2], TRUE)

executeVQEStep(qs, pairs, m, outcome) ==
    LET ids == getAllStates(qs)
    IN  IF Len(ids) < 2 THEN StepResult(qs, pairs, m, TRUE)
        ELSE LET qs1 == hadamardGate(qs, ids[1])
                 qs2 == controlledPhaseGate(qs1, ids[1], ids[2])
             IN  StepResult(measure(qs2, ids[2], outcome), pairs,
                            [m EXCEPT !.quantumOps = @ + 3, !.classicalOps = @ + 1],
                            outcome \in MeasureOutcomes(GetQubit(qs2, ids[2]).amp))

\* executeAlgorithmStep: an algorithm that is not in the table does nothing.
executeAlgorithmStep(qs, pairs, m, steps, outcome) ==
    IF currentAlgorithm \notin AlgorithmKeys THEN StepResult(qs, pairs, m, TRUE)
    ELSE CASE currentAlgorithm = "shor" -> executeShorStep(qs, pairs, m, steps, outcome)
           [] currentAlgorithm = "grover" -> executeGroverStep(qs, pairs, m, steps)
           [] currentAlgorithm = "qft" -> executeQFTStep(qs, pairs, m)
           [] OTHER -> executeVQEStep(qs, pairs, m, outcome)

\* The random draws of one executeRandomOperations call, and the outcome of
\* the measurement an algorithm step may make:
\*   qubit, q1, q2   positions drawn by Math.floor(Math.random() * length)
\*   operation       Math.floor(Math.random() * 4)
\*   doMeasure       Math.random() < 0.1
\*   outcome         the outcome of the measurement
\*   doEntangle      Math.random() < 0.05
\*   reads, writes   Math.floor(Math.random() * 3), Math.floor(Math.random() * 2)
\* A draw that is not made, or whose value is not used, is fixed.
GateDraws(n) ==
    IF n = 0
    THEN {[qubit |-> 1, operation |-> 0, doMeasure |-> FALSE, outcome |-> 0]}
    ELSE [qubit : 1..n, operation : 0..3, doMeasure : {FALSE}, outcome : {0}]
         \cup [qubit : 1..n, operation : {3}, doMeasure : {TRUE}, outcome : {0, 1}]

EntangleDraws(n) ==
    {[doEntangle |-> FALSE, q1 |-> 1, q2 |-> 1]}
    \cup IF n >= 2 THEN [doEntangle : {TRUE}, q1 : 1..n, q2 : 1..n] ELSE {}

ClassicalDraws(hybridMode) ==
    IF hybridMode THEN [reads : 0..2, writes : 0..1]
    ELSE {[reads |-> 0, writes |-> 0]}

RandomDraws(n, hybridMode) ==
    {[qubit |-> g.qubit, operation |-> g.operation, doMeasure |-> g.doMeasure,
      outcome |-> g.outcome, doEntangle |-> e.doEntangle, q1 |-> e.q1, q2 |-> e.q2,
      reads |-> c.reads, writes |-> c.writes] :
        g \in GateDraws(n), e \in EntangleDraws(n), c \in ClassicalDraws(hybridMode)}

AlgorithmDraws ==
    {[qubit |-> 1, operation |-> 0, doMeasure |-> FALSE, outcome |-> o,
      doEntangle |-> FALSE, q1 |-> 1, q2 |-> 1, reads |-> 0, writes |-> 0] :
        o \in {0, 1}}

\* Random operations that entangle the two qubits drawn whether or not
\* they are entangled already.
executeRandomOperationsAnyPair(qs, pairs, m, hybridMode, r) ==
    LET ids == getAllStates(qs)
        gated == IF Len(ids) = 0 THEN qs
                 ELSE CASE r.operation = 0 -> hadamardGate(qs, ids[r.qubit])
                        [] r.operation = 1 -> xGate(qs, ids[r.qubit])
                        [] r.operation = 2 -> zGate(qs, ids[r.qubit])
                        [] OTHER -> IF r.doMeasure
                                    THEN measure(qs, ids[r.qubit], r.outcome)
                                    ELSE qs
        valid == (Len(ids) > 0 /\ r.operation = 3 /\ r.doMeasure) =>
                     r.outcome \in MeasureOutcomes(GetQubit(qs, ids[r.qubit]).amp)
        m1 == IF Len(ids) > 0 THEN [m EXCEPT !.quantumOps = @ + 1] ELSE m
        doEnt == Len(ids) >= 2 /\ r.doEntangle /\ ids[r.q1] # ids[r.q2]
        qs2 == IF doEnt THEN entangle(gated, ids[r.q1], ids[r.q2]) ELSE gated
        pairs2 == IF doEnt THEN entanglePairs(pairs, ids[r.q1], ids[r.q2]) ELSE pairs
        m2 == IF doEnt THEN [m1 EXCEPT !.entanglementEvents = @ + 1] ELSE m1
        m3 == IF hybridMode
              THEN [m2 EXCEPT !.classicalOps = @ + 1,
                              !.memoryReads = @ + r.reads,
                              !.memoryWrites = @ + r.writes]
              ELSE m2
    IN  StepResult(qs2, pairs2, m3, valid)

executeRandomOperations(qs, pairs, m, hybridMode, r) ==
    LET ids == getAllStates(qs)
        gated == IF Len(ids) = 0 THEN qs
                 ELSE CASE r.operation = 0 -> hadamardGate(qs, ids[r.qubit])
                        [] r.operation = 1 -> xGate(qs, ids[r.qubit])
                        [] r.operation = 2 -> zGate(qs, ids[r.qubit])
                        [] OTHER -> IF r.doMeasure
                                    THEN measure(qs, ids[r.qubit], r.outcome)
                                    ELSE qs
        valid == (Len(ids) > 0 /\ r.operation = 3 /\ r.doMeasure) =>
                     r.outcome \in MeasureOutcomes(GetQubit(qs, ids[r.qubit]).amp)
        m1 == IF Len(ids) > 0 THEN [m EXCEPT !.quantumOps = @ + 1] ELSE m
        \* q1.isEntangled and q2.isEntangled are those of the getAllStates
        \* snapshot taken before the gate, which the gate does not change.
        doEnt == /\ Len(ids) >= 2 /\ r.doEntangle
                 /\ ids[r.q1] # ids[r.q2]
                 /\ ~qs[r.q1].isEntangled /\ ~qs[r.q2].isEntangled
        qs2 == IF doEnt THEN entangle(gated, ids[r.q1], ids[r.q2]) ELSE gated
        pairs2 == IF doEnt THEN entanglePairs(pairs, ids[r.q1], ids[r.q2]) ELSE pairs
        m2 == IF doEnt THEN [m1 EXCEPT !.entanglementEvents = @ + 1] ELSE m1
        m3 == IF hybridMode
              THEN [m2 EXCEPT !.classicalOps = @ + 1,
                              !.memoryReads = @ + r.reads,
                              !.memoryWrites = @ + r.writes]
              ELSE m2
    IN  StepResult(qs2, pairs2, m3, valid)

\* SimulationService.applyDecoherence: every qubit, then the counter.
applyDecoherence(res) ==
    [res EXCEPT !.qs = ForEach("decoherence", res.qs, getAllStates(res.qs), 1),
                !.metrics.coherenceEvents = @ + Len(res.qs)]

\* updatePerformanceMetrics: the sample kept in currentPerformance (stepTime,
\* the coherence figures and the timestamp are left out).
updatePerformanceMetrics(qs) ==
    [activeQubits |-> Len(qs),
     entangledQubits |-> Cardinality({i \in 1..Len(qs) : qs[i].isEntangled})]

\* A recording that drops the newest sample above the cap (pop for shift).
recordPerformanceDropNewest(history, perf, steps) ==
    LET pushed == Append(history, [step |-> steps,
                                   activeQubits |-> perf.activeQubits,
                                   entangledQubits |-> perf.entangledQubits])
    IN  IF Len(pushed) > HistoryCap THEN SubSeq(pushed, 1, Len(pushed) - 1)
        ELSE pushed

\* recordPerformance: push {...currentPerformance, step}, then drop the first
\* sample above the cap.
recordPerformance(history, perf, steps) ==
    LET pushed == Append(history, [step |-> steps,
                                   activeQubits |-> perf.activeQubits,
                                   entangledQubits |-> perf.entangledQubits])
    IN  IF Len(pushed) > HistoryCap THEN Tail(pushed) ELSE pushed

\* The places of the try block where an exception is let happen.
ThrowPoints == {"none", "step", "decoherence", "metrics"}

\* The try block of simulationStep with its catch: the step, decoherence,
\* the metric update and the recording, cut short where an exception is
\* thrown; the catch block logs and returns.
tryStep(timer, r, throwAt) ==
    LET stepped == IF currentAlgorithm # Null
                   THEN executeAlgorithmStep(quantumStates, entanglementPairs,
                                             metrics, stepCount + 1, r.outcome)
                   ELSE executeRandomOperations(quantumStates, entanglementPairs,
                                                metrics, timer.hybridMode, r)
        decohered == applyDecoherence(stepped)
        sample == updatePerformanceMetrics(decohered.qs)
    IN  CASE throwAt = "step" ->
               /\ r.outcome = 0
               /\ UNCHANGED <<quantumStates, entanglementPairs, metrics,
                              currentPerformance, performanceHistory>>
               /\ lastTick' = "caught"
          [] throwAt = "decoherence" ->
               /\ stepped.valid
               /\ quantumStates' = stepped.qs
               /\ entanglementPairs' = stepped.pairs
               /\ metrics' = stepped.metrics
               /\ UNCHANGED <<currentPerformance, performanceHistory>>
               /\ lastTick' = "caught"
          [] throwAt = "metrics" ->
               /\ stepped.valid
               /\ quantumStates' = decohered.qs
               /\ entanglementPairs' = decohered.pairs
               /\ metrics' = decohered.metrics
               /\ UNCHANGED <<currentPerformance, performanceHistory>>
               /\ lastTick' = "caught"
          [] OTHER ->
               /\ stepped.valid
               /\ quantumStates' = decohered.qs
               /\ entanglementPairs' = decohered.pairs
               /\ metrics' = decohered.metrics
               /\ currentPerformance' = <<sample>>
               /\ performanceHistory' =
                      recordPerformance(performanceHistory, sample, stepCount + 1)
               /\ lastTick' = "completed"

\* A tick whose exception is not caught: the process ends and its timers
\* with it.
simulationStepUncaught(timer, r, throwAt) ==
    /\ timer \in timers
    /\ pendingStarts = {}
    /\ stepCount < MaxSteps
    /\ stepCount' = stepCount + 1
    /\ tryStep(timer, r, throwAt)
    /\ IF throwAt = "none"
       THEN UNCHANGED <<isRunning, simulationInterval, timers>>
       ELSE /\ isRunning' = FALSE
            /\ simulationInterval' = NoTimer
            /\ timers' = {}
    /\ UNCHANGED <<now, startTime, currentAlgorithm, classicalMemorySize,
                   timerCount, pendingStarts, simRet>>

\* A tick that counts itself only if it runs to its end.
simulationStepCountingCompleted(timer, r, throwAt) ==
    /\ timer \in timers
    /\ pendingStarts = {}
    /\ stepCount < MaxSteps
    /\ stepCount' = IF throwAt = "none" THEN stepCount + 1 ELSE stepCount
    /\ tryStep(timer, r, throwAt)
    /\ UNCHANGED <<now, isRunning, simulationInterval, startTime, currentAlgorithm,
                   classicalMemorySize, timers, timerCount, pendingStarts, simRet>>

\* simulationStep, the callback of an armed timer. Timer callbacks run only
\* when no continuation of a suspended call is waiting.
simulationStep(timer, r, throwAt) ==
    /\ timer \in timers
    /\ pendingStarts = {}
    /\ stepCount < MaxSteps
    /\ stepCount' = stepCount + 1
    /\ tryStep(timer, r, throwAt)
    /\ UNCHANGED <<now, isRunning, simulationInterval, startTime, currentAlgorithm,
                   classicalMemorySize, timers, timerCount, pendingStarts, simRet>>

\* The start configurations explored: qubits, algorithm, memorySize and
\* hybridMode; stepInterval only sets the timer's period.
\* new Array(memorySize) throws a RangeError for a negative memorySize.
StartConfigs ==
    [qubits : 0..MaxQubits,
     algorithm : {Null, "shor", "grover", "qft", "vqe", "none-such"},
     memorySize : {1024, -1},
     hybridMode : BOOLEAN]

\* The amplitudes initializeQuantumSystem can draw: alpha = Math.random(),
\* beta = sqrt(1 - alpha^2); explored are alpha = 0 and alpha = sqrt(0.5).
InitialAmps == {RealAmp(0, 1, 0), RealAmp(1, 1, 1)}

\* initializeQuantumSystem: reset, then createQubit for q0 .. q{n-1}.
RECURSIVE CreateQubits(_, _, _)
CreateQubits(qs, amps, i) ==
    IF i > Len(amps) THEN qs
    ELSE CreateQubits(createQubit(qs, i - 1, amps[i]), amps, i + 1)

initializeQuantumSystem(amps) == CreateQubits(<<>>, amps, 1)

\* A start that also clears the counters.
startAcceptedClearingMetrics(config, amps) ==
    /\ timerCount < MaxStarts
    /\ Len(amps) = config.qubits
    /\ isRunning' = TRUE
    /\ stepCount' = 0
    /\ startTime' = <<now>>
    /\ currentAlgorithm' = config.algorithm
    /\ quantumStates' = initializeQuantumSystem(amps)
    /\ entanglementPairs' = {}
    /\ timerCount' = timerCount + 1
    /\ pendingStarts' = pendingStarts \cup
           {[call |-> timerCount + 1, config |-> config, pc |-> "await1",
             rejected |-> FALSE]}
    /\ metrics' = ZeroMetrics
    /\ UNCHANGED <<now, simulationInterval, performanceHistory,
                   currentPerformance, classicalMemorySize, timers, lastTick,
                   simRet>>

\* startSimulation past its running check, up to its first await: the
\* fields set at the head of the try block and initializeQuantumSystem, whose
\* body runs within the call.
startAccepted(config, amps) ==
    /\ timerCount < MaxStarts
    /\ Len(amps) = config.qubits
    /\ isRunning' = TRUE
    /\ stepCount' = 0
    /\ startTime' = <<now>>
    /\ currentAlgorithm' = config.algorithm
    /\ quantumStates' = initializeQuantumSystem(amps)
    /\ entanglementPairs' = {}
    /\ timerCount' = timerCount + 1
    /\ pendingStarts' = pendingStarts \cup
           {[call |-> timerCount + 1, config |-> config, pc |-> "await1",
             rejected |-> FALSE]}
    /\ UNCHANGED <<now, simulationInterval, metrics, performanceHistory,
                   currentPerformance, classicalMemorySize, timers, lastTick,
                   simRet>>

\* A startSimulation without the running check.
startSimulationUnchecked(config, amps) ==
    startAccepted(config, [i \in 1..config.qubits |-> RealAmp(0, 1, 0)])

\* startSimulation: turned away while running, accepted otherwise.
startSimulation(config, amps) ==
    IF isRunning
    THEN /\ simRet' = [op |-> "start", success |-> FALSE,
                       message |-> "Simulation already running"]
         /\ UNCHANGED <<now, quantumVars, isRunning, simulationInterval, stepCount,
                        startTime, metrics, performanceHistory, currentPerformance,
                        currentAlgorithm, classicalMemorySize, timers, timerCount,
                        pendingStarts, lastTick>>
    ELSE startAccepted(config, amps)

\* startSimulation resumed after its first await: initializeClassicalSystem
\* stores memorySize and allocates the arrays, which may throw.
startAfterQuantum(p) ==
    /\ p \in pendingStarts
    /\ p.pc = "await1"
    /\ classicalMemorySize' = <<p.config.memorySize>>
    /\ pendingStarts' = (pendingStarts \ {p}) \cup
           {[p EXCEPT !.pc = "await2", !.rejected = (p.config.memorySize < 0)]}
    /\ UNCHANGED <<now, quantumVars, isRunning, simulationInterval, stepCount,
                   startTime, metrics, performanceHistory, currentPerformance,
                   currentAlgorithm, timers, timerCount, lastTick, simRet>>

\* startSimulation resumed after its second await: the catch block on a
\* rejection, otherwise setInterval and the success result.
startAfterClassical(p) ==
    /\ p \in pendingStarts
    /\ p.pc = "await2"
    /\ pendingStarts' = pendingStarts \ {p}
    /\ IF p.rejected
       THEN /\ isRunning' = FALSE
            /\ simRet' = [op |-> "start", success |-> FALSE,
                          message |-> "Invalid array length"]
            /\ UNCHANGED <<simulationInterval, timers>>
       ELSE /\ simulationInterval' = p.call
            /\ timers' = timers \cup
                   {[id |-> p.call, hybridMode |-> p.config.hybridMode]}
            /\ simRet' = [op |-> "start", success |-> TRUE,
                          message |-> "Simulation started successfully"]
            /\ UNCHANGED isRunning
    /\ UNCHANGED <<now, quantumVars, stepCount, startTime, metrics,
                   performanceHistory, currentPerformance, currentAlgorithm,
                   classicalMemorySize, timerCount, lastTick>>

\* clearInterval(handle)
clearInterval(armed, handle) == {t \in armed : t.id # handle}

\* stopSimulation past its running check: the timer is cleared and the
\* scheduler is idle.
stopAccepted ==
    /\ IF simulationInterval # NoTimer
       THEN /\ timers' = clearInterval(timers, simulationInterval)
            /\ simulationInterval' = NoTimer
       ELSE UNCHANGED <<timers, simulationInterval>>
    /\ isRunning' = FALSE
    /\ simRet' = [op |-> "stop", success |-> TRUE,
                  message |-> "Simulation stopped", steps |-> stepCount]
    /\ UNCHANGED <<now, quantumVars, stepCount, startTime, metrics,
                   performanceHistory, currentPerformance, currentAlgorithm,
                   classicalMemorySize, timerCount, pendingStarts, lastTick>>

\* A stopSimulation without the running check.
stopSimulationUnchecked == stopAccepted

\* stopSimulation: turned away while idle, accepted otherwise.
stopSimulation ==
    IF ~isRunning
    THEN /\ simRet' = [op |-> "stop", success |-> FALSE,
                       message |-> "No simulation running"]
         /\ UNCHANGED <<now, quantumVars, isRunning, simulationInterval, stepCount,
                        startTime, metrics, performanceHistory, currentPerformance,
                        currentAlgorithm, classicalMemorySize, timers, timerCount,
                        pendingStarts, lastTick>>
    ELSE stopAccepted

\* reset: stopSimulation (its result is dropped), then the fields and the
\* register are cleared.
reset ==
    /\ IF ~isRunning
       THEN UNCHANGED <<simulationInterval, timers>>
       ELSE IF simulationInterval # NoTimer
            THEN /\ timers' = clearInterval(timers, simulationInterval)
                 /\ simulationInterval' = NoTimer
            ELSE UNCHANGED <<timers, simulationInterval>>
    /\ isRunning' = FALSE
    /\ stepCount' = 0
    /\ startTime' = <<>>
    /\ metrics' = ZeroMetrics
    /\ performanceHistory' = <<>>
    /\ currentAlgorithm' = Null
    /\ quantumStates' = <<>>
    /\ entanglementPairs' = {}
    /\ simRet' = [op |-> "reset"]
    /\ UNCHANGED <<now, currentPerformance, classicalMemorySize, timerCount,
                   pendingStarts, lastTick>>

\* A gate of a circuit: {type, target, control, qubit1, qubit2}; a field the
\* gate does not carry is undefined, which is the id of no qubit.
Gate(type, target, control) ==
    [type |-> type, target |-> target, control |-> control,
     qubit1 |-> NoQubit, qubit2 |-> NoQubit]

EntangleGate(qubit1, qubit2) ==
    [type |-> "ENTANGLE", target |-> NoQubit, control |-> NoQubit,
     qubit1 |-> qubit1, qubit2 |-> qubit2]

\* The state an executeCircuit call hands from gate to gate.
CircuitResult(qs, pairs, m, threw, valid) ==
    [qs |-> qs, pairs |-> pairs, metrics |-> m, threw |-> threw, valid |-> valid]

\* The switch of executeCircuit for one gate, then quantumOps++; a gate that
\* throws ends the loop before the increment.
applyCircuitGate(res, gate, outcome) ==
    LET qs == res.qs
        counted == [res.metrics EXCEPT !.quantumOps = @ + 1]
        thrown == [res EXCEPT !.threw = TRUE]
    IN  CASE gate.type = "H" ->
               IF ~HasQubit(qs, gate.target) THEN thrown
               ELSE [res EXCEPT !.qs = hadamardGate(qs, gate.target),
                                !.metrics = counted]
          [] gate.type = "X" ->
               IF ~HasQubit(qs, gate.target) THEN thrown
               ELSE [res EXCEPT !.qs = xGate(qs, gate.target), !.metrics = counted]
          [] gate.type = "Z" ->
               IF ~HasQubit(qs, gate.target) THEN thrown
               ELSE [res EXCEPT !.qs = zGate(qs, gate.target), !.metrics = counted]
          [] gate.type = "CNOT" ->
               [res EXCEPT !.qs = controlledPhaseGate(qs, gate.control, gate.target),
                           !.metrics = counted]
          [] gate.type = "ENTANGLE" ->
               IF ~HasQubit(qs, gate.qubit1) \/ ~HasQubit(qs, gate.qubit2)
               THEN thrown
               ELSE [res EXCEPT !.qs = entangle(qs, gate.qubit1, gate.qubit2),
                                !.pairs = entanglePairs(res.pairs, gate.qubit1,
                                                        gate.qubit2),
                                !.metrics = counted]
          [] gate.type = "MEASURE" ->
               IF ~HasQubit(qs, gate.target) THEN thrown
               ELSE [res EXCEPT !.qs = measure(qs, gate.target, outcome),
                                !.metrics = counted,
                                !.valid = res.valid /\ outcome \in
                                    MeasureOutcomes(GetQubit(qs, gate.target).amp)]
          [] OTHER -> [res EXCEPT !.metrics = counted]

\* for (const gate of circuit.gates) { ... }
RECURSIVE CircuitLoop(_, _, _, _)
CircuitLoop(res, gates, i, outcome) ==
    IF i > Len(gates) \/ res.threw THEN res
    ELSE CircuitLoop(applyCircuitGate(res, gates[i], outcome), gates, i + 1, outcome)

\* executeCircuit(circuit): the loop runs within the call; an exception ends
\* it and is turned into a failure result.  A circuit without a gates list
\* throws a TypeError at the head of the loop.
executeCircuit(circuit, outcome) ==
    /\ metrics.quantumOps < MaxCircuitOps
    /\ \E res \in {IF circuit.hasGates
                   THEN CircuitLoop(CircuitResult(quantumStates, entanglementPairs,
                                                  metrics, FALSE, TRUE),
                                    circuit.gates, 1, outcome)
                   ELSE CircuitResult(quantumStates, entanglementPairs, metrics,
                                      TRUE, TRUE)} :
          /\ res.valid
          /\ quantumStates' = res.qs
          /\ entanglementPairs' = res.pairs
          /\ metrics' = res.metrics
          /\ simRet' = [op |-> "executeCircuit", success |-> ~res.threw]
    /\ UNCHANGED <<now, isRunning, simulationInterval, stepCount, startTime,
                   performanceHistory, currentPerformance, currentAlgorithm,
                   classicalMemorySize, timers, timerCount, pendingStarts, lastTick>>

\* A millisecond passes.
ClockTick ==
    /\ now < MaxTime
    /\ now' = now + 1

(***************************************************************************)
(* QuantumMemory. An amplitude is [real, imaginary] in thousandths (1 is   *)
(* Unit, 0.707 is SqrtHalf; -0 and 0 are one value). quantumStates is a    *)
(* function from the indexes that hold a state: 0..qubits-1 after          *)
(* construction, and -1 as well once a state was stored at that property.  *)
(* A state is [amplitude, entangled]; its phase and measurementHistory are *)
(* written but never read by the operations and are left out. A memory is  *)
(* [quantumStates, superpositionStates, entanglementPairs]; an operation   *)
(* hands on the memory after its changes and either its return value or    *)
(* the error thrown.                                                       *)
(***************************************************************************)
QmAmp(real, imaginary) == [real |-> real, imaginary |-> imaginary]

QmState(amp, entangled) == [amplitude |-> amp, entangled |-> entangled]

\* new QuantumMemory(qubits)
newQuantumMemory(qubits) ==
    [quantumStates |-> [i \in 0..(qubits - 1) |-> QmState(QmAmp(Unit, 0), FALSE)],
     superpositionStates |-> <<>>,
     entanglementPairs |-> <<>>]

QmReturned(qm, value) == [qm |-> qm, threw |-> FALSE, error |-> Null, value |-> value]

QmThrew(qm, message) == [qm |-> qm, threw |-> TRUE, error |-> message, value |-> Null]

\* this.quantumStates[index] is an object (not undefined).
QmHasState(qm, index) == index \in DOMAIN qm.quantumStates

\* this.quantumStates[index] = state
QmStore(states, index, state) ==
    [i \in (DOMAIN states) \cup {index} |-> IF i = index THEN state ELSE states[i]]

createSuperposition(qm, qubits, qubitIndex, alpha, beta) ==
    IF qubitIndex >= qubits THEN QmThrew(qm, "Qubit index out of range")
    ELSE QmReturned(
            [qm EXCEPT !.quantumStates = QmStore(qm.quantumStates, qubitIndex,
                                          QmState(QmAmp(alpha, beta), FALSE)),
                       !.superpositionStates = MapSet(qm.superpositionStates, qubitIndex,
                                                 [alpha |-> alpha, beta |-> beta])],
            "state")

\* entangleQubits: the flags are set one after the other, so a missing state
\* for qubit2 raises a TypeError after qubit1 was flagged.
entangleQubits(qm, qubits, qubit1, qubit2) ==
    IF qubit1 >= qubits \/ qubit2 >= qubits
    THEN QmThrew(qm, "Qubit indices out of range")
    ELSE IF ~QmHasState(qm, qubit1) THEN QmThrew(qm, "TypeError")
    ELSE LET first == [qm EXCEPT !.quantumStates[qubit1].entangled = TRUE]
         IN  IF ~QmHasState(first, qubit2) THEN QmThrew(first, "TypeError")
             ELSE QmReturned(
                     [first EXCEPT !.quantumStates[qubit2].entangled = TRUE,
                                   !.entanglementPairs = Append(first.entanglementPairs, <<qubit1, qubit2>>)],
                     "entangled")

\* Math.pow(real, 2) + Math.pow(imaginary, 2), in millionths.
QmProbability(amp) == amp.real * amp.real + amp.imaginary * amp.imaginary

\* The results Math.random() < probability ? 1 : 0 can give: Math.random()
\* is in [0, 1).
QmMeasureResults(amp) ==
    {r \in {0, 1} : IF r = 1 THEN QmProbability(amp) > 0
                             ELSE QmProbability(amp) < Unit * Unit}

\* this.entanglementPairs.find(pair => pair.includes(measuredQubit)): the
\* position of the first such pair, 0 when there is none.
FirstPairWith(pairs, measuredQubit) ==
    IF \E k \in 1..Len(pairs) : measuredQubit \in {pairs[k][1], pairs[k][2]}
    THEN CHOOSE k \in 1..Len(pairs) :
            /\ measuredQubit \in {pairs[k][1], pairs[k][2]}
            /\ \A j \in 1..(k - 1) : measuredQubit \notin {pairs[j][1], pairs[j][2]}
    ELSE 0

\* handleEntanglementCollapse: the partner is the member of the pair found
\* that is not the measured qubit; a pair of a qubit with itself has none,
\* and the assignment to its state raises a TypeError.
handleEntanglementCollapse(qm, measuredQubit, result) ==
    LET k == FirstPairWith(qm.entanglementPairs, measuredQubit)
    IN  IF k = 0 THEN QmReturned(qm, "undefined")
        ELSE LET pair == qm.entanglementPairs[k]
             IN  IF pair[1] = measuredQubit /\ pair[2] = measuredQubit
                 THEN QmThrew(qm, "TypeError")
                 ELSE LET partnerQubit == IF pair[1] # measuredQubit THEN pair[1]
                                          ELSE pair[2]
                      IN  QmReturned(
                             [qm EXCEPT !.quantumStates[partnerQubit].amplitude =
                                 IF result = 1 THEN QmAmp(0, Unit) ELSE QmAmp(Unit, 0)],
                             "undefined")

\* measureQubit with the result drawn; result is one of QmMeasureResults.
measureQubit(qm, qubits, qubitIndex, result) ==
    IF qubitIndex >= qubits THEN QmThrew(qm, "Qubit index out of range")
    ELSE IF ~QmHasState(qm, qubitIndex) THEN QmThrew(qm, "TypeError")
    ELSE LET measured == [qm EXCEPT !.quantumStates[qubitIndex].amplitude =
                             IF result = 1 THEN QmAmp(Unit, 0) ELSE QmAmp(0, Unit)]
             collapse == handleEntanglementCollapse(measured, qubitIndex, result)
         IN  IF collapse.threw THEN collapse ELSE QmReturned(collapse.qm, result)

\* The gate types the callers pass; ROTATION is not among them.
GateTypes == {"HADAMARD", "PAULI_X", "PAULI_Z", "UNKNOWN"}

\* applyGate: a type that is no case of the switch touches nothing, not even
\* a missing state.
applyGate(qm, qubits, qubitIndex, type) ==
    IF qubitIndex >= qubits THEN QmThrew(qm, "Qubit index out of range")
    ELSE IF type \notin {"HADAMARD", "PAULI_X", "PAULI_Z"}
    THEN QmReturned(qm, "state")
    ELSE IF ~QmHasState(qm, qubitIndex) THEN QmThrew(qm, "TypeError")
    ELSE LET amp == qm.quantumStates[qubitIndex].amplitude
             gated == CASE type = "HADAMARD" -> QmAmp(SqrtHalf, SqrtHalf)
                        [] type = "PAULI_X" -> QmAmp(amp.imaginary, amp.real)
                        [] type = "PAULI_Z" -> QmAmp(amp.real, 0 - amp.imaginary)
         IN  QmReturned([qm EXCEPT !.quantumStates[qubitIndex].amplitude = gated], "state")

\* A number of millionths rounded to thousandths.
Thousandths(x) == (x + 500) \div 1000

\* The angle of a ROTATION gate: whether it is 0, and the cosine and sine of
\* its half in thousandths.
Angle(cos, sin) == [zero |-> FALSE, cos |-> cos, sin |-> sin]

\* Math.PI / 4, the angle used for a gate whose angle is 0 or missing.
DefaultAngle == Angle(924, 383)

\* applyGate with a ROTATION gate: gate.angle || Math.PI / 4, then the
\* amplitude pair is turned by half the angle.
applyRotation(qm, qubits, qubitIndex, gateAngle) ==
    IF qubitIndex >= qubits THEN QmThrew(qm, "Qubit index out of range")
    ELSE IF ~QmHasState(qm, qubitIndex) THEN QmThrew(qm, "TypeError")
    ELSE LET angle == IF gateAngle.zero THEN DefaultAngle ELSE gateAngle
             amp == qm.quantumStates[qubitIndex].amplitude
             newReal == Thousandths(angle.cos * amp.real - angle.sin * amp.imaginary)
             newImag == Thousandths(angle.sin * amp.real + angle.cos * amp.imaginary)
         IN  QmReturned([qm EXCEPT !.quantumStates[qubitIndex].amplitude =
                                       QmAmp(newReal, newImag)], "state")

(***************************************************************************)
(* HybridProcessor. A task is [defined, type, data]; its data is           *)
(* [defined, operation, hasValues, values, hasSearchSpace, searchSpace,    *)
(* target, hasProblem, variables, hasConstraints, constraints, hasTasks,   *)
(* tasks]. The tasks explored are those of the classical path (a type that *)
(* is none of the four named ones), of QUANTUM_SEARCH, of                  *)
(* HYBRID_OPTIMIZATION and of PARALLEL_COMPUTATION, and malformed ones.    *)
(***************************************************************************)
NoData ==
    [defined |-> FALSE, operation |-> Null, hasValues |-> FALSE, values |-> <<>>,
     hasSearchSpace |-> FALSE, searchSpace |-> <<>>, target |-> Null,
     hasProblem |-> FALSE, variables |-> <<>>,
     hasConstraints |-> FALSE, constraints |-> <<>>,
     hasTasks |-> FALSE, tasks |-> <<>>]

TaskData(operation, values) ==
    [NoData EXCEPT !.defined = TRUE, !.operation = operation, !.hasValues = TRUE,
                   !.values = values]

ClassicalTask(operation, values) ==
    [defined |-> TRUE, type |-> "CLASSICAL", data |-> TaskData(operation, values)]

\* A task of the given type with the data of a search.
SearchTask(type, searchSpace, target) ==
    [defined |-> TRUE, type |-> type,
     data |-> [NoData EXCEPT !.defined = TRUE, !.hasSearchSpace = TRUE,
                             !.searchSpace = searchSpace, !.target = target]]

\* A constraint {min, max} of an optimization, or a missing one.
Constraint(min, max) == [defined |-> TRUE, min |-> min, max |-> max]

NoConstraint == [defined |-> FALSE, min |-> 0, max |-> 0]

\* A HYBRID_OPTIMIZATION task: data {problem: {variables}, constraints}.
OptimizationTask(variables, constraints) ==
    [defined |-> TRUE, type |-> "HYBRID_OPTIMIZATION",
     data |-> [NoData EXCEPT !.defined = TRUE, !.hasProblem = TRUE,
                             !.variables = variables, !.hasConstraints = TRUE,
                             !.constraints = constraints]]

\* A PARALLEL_COMPUTATION task; the sub-task {data: n} is the number n.
ParallelTask(tasks) ==
    [defined |-> TRUE, type |-> "PARALLEL_COMPUTATION",
     data |-> [NoData EXCEPT !.defined = TRUE, !.hasTasks = TRUE, !.tasks = tasks]]

Tasks ==
    {[defined |-> FALSE, type |-> Null, data |-> NoData],
     [defined |-> TRUE, type |-> Null, data |-> NoData],
     [defined |-> TRUE, type |-> "CLASSICAL",
      data |-> [TaskData("SUM", <<>>) EXCEPT !.hasValues = FALSE]],
     ClassicalTask("SUM", <<1, 2>>),
     ClassicalTask("MULTIPLY", <<2>>),
     ClassicalTask(Null, <<>>),
     ClassicalTask("SUM", <<1, UndefinedValue>>)}

\* The tasks of the runs that compare the task paths: sums of the classical
\* path, over three values and over none, under a type that is not a named
\* one and under no type at all, and a search over two elements.
PathTasks ==
    {ClassicalTask("SUM", <<1, 2, 3>>),
     ClassicalTask("SUM", <<>>),
     [ClassicalTask("SUM", <<1, 2>>) EXCEPT !.type = Null],
     SearchTask("QUANTUM_SEARCH", <<"a", "b">>, "a")}

\* What a task path hands on: the processor's ClassicalMemory after its
\* writes, and either the result object or the error thrown.
Returned(st, result, quantumOps, classicalOps) ==
    [st |-> st, threw |-> FALSE, result |-> result, error |-> Null,
     quantumOps |-> quantumOps, classicalOps |-> classicalOps]

Threw(st, message) ==
    [st |-> st, threw |-> TRUE, result |-> [kind |-> Null, number |-> 0, array |-> <<>>],
     error |-> message, quantumOps |-> 0, classicalOps |-> 0]

NumberResult(n) == [kind |-> "number", number |-> n, array |-> <<>>]

\* What quantumSearch returns: found is <<>> for null, probability is in
\* hundredths.
SearchResult(found, probability) ==
    [kind |-> "search", number |-> probability, array |-> found]

ArrayResult(values) == [kind |-> "array", number |-> 0, array |-> values]

\* values.reduce((sum, val) => sum + val, 0)
RECURSIVE SumOf(_, _)
SumOf(values, i) == IF i > Len(values) THEN 0 ELSE values[i] + SumOf(values, i + 1)

\* values.reduce((prod, val) => prod * val, 1)
RECURSIVE ProductOf(_, _)
ProductOf(values, i) ==
    IF i > Len(values) THEN 1 ELSE values[i] * ProductOf(values, i + 1)

\* The write loop of classicalComputation from position i on: data_{i-1} is
\* address i; write throws in calculateSize, after its changes to the memory,
\* for a value JSON.stringify gives undefined for.
RECURSIVE WriteValues(_, _, _, _)
WriteValues(st, values, i, timestamp) ==
    IF i > Len(values) THEN [st |-> st, threw |-> FALSE]
    ELSE LET written == writeState(st, i, values[i], timestamp)
         IN  IF values[i] = UndefinedValue
             THEN [st |-> written, threw |-> TRUE]
             ELSE WriteValues(written, values, i + 1, timestamp)

\* A classicalComputation whose switch has no case for SUM.
classicalComputationNoSum(st, data, timestamp) ==
    IF ~data.defined \/ ~data.hasValues THEN Threw(st, "TypeError")
    ELSE LET values == data.values
             loop == WriteValues(st, values, 1, timestamp)
         IN  IF loop.threw THEN Threw(loop.st, "TypeError")
             ELSE CASE data.operation = "MULTIPLY" ->
                         Returned(loop.st, NumberResult(ProductOf(values, 1)), 0,
                                  Len(values) + Len(values))
                    [] OTHER ->
                         Returned(loop.st, ArrayResult(values), 0, Len(values) + 1)

classicalComputation(st, data, timestamp) ==
    IF ~data.defined \/ ~data.hasValues THEN Threw(st, "TypeError")
    ELSE LET values == data.values
             loop == WriteValues(st, values, 1, timestamp)
         IN  IF loop.threw THEN Threw(loop.st, "TypeError")
             \* MATRIX_MULT is not among the operations of the tasks explored.
             ELSE CASE data.operation = "SUM" ->
                         Returned(loop.st, NumberResult(SumOf(values, 1)), 0,
                                  Len(values) + Len(values))
                    [] data.operation = "MULTIPLY" ->
                         Returned(loop.st, NumberResult(ProductOf(values, 1)), 0,
                                  Len(values) + Len(values))
                    [] OTHER ->
                         Returned(loop.st, ArrayResult(values), 0, Len(values) + 1)

\* Math.ceil(Math.log2(n)) for n >= 1; for n = 0 it is -Infinity, and the
\* loops it bounds run as often as for 0.
CeilLog2(n) ==
    IF n = 0 THEN 0
    ELSE CHOOSE k \in 0..n : Pow2(k) >= n /\ (k = 0 \/ Pow2(k - 1) < n)

\* Math.floor(Math.PI / 4 * Math.sqrt(n)): the largest k with
\* 16 k^2 <= pi^2 n, where pi^2 is 9.8696...
GroverIterations(n) ==
    CHOOSE k \in 0..n : /\ 160000 * k * k <= 98696 * n
                        /\ 160000 * (k + 1) * (k + 1) > 98696 * n

\* for (i < n) createSuperposition(i), from i on.
RECURSIVE SuperposeLoop(_, _, _, _)
SuperposeLoop(qm, qubits, i, n) ==
    IF i >= n THEN QmReturned(qm, "undefined")
    ELSE LET step == createSuperposition(qm, qubits, i, SqrtHalf, SqrtHalf)
         IN  IF step.threw THEN step ELSE SuperposeLoop(step.qm, qubits, i + 1, n)

\* for (i < n) applyGate(i, {type}), from i on.
RECURSIVE GateLoop(_, _, _, _, _)
GateLoop(qm, qubits, type, i, n) ==
    IF i >= n THEN QmReturned(qm, "undefined")
    ELSE LET step == applyGate(qm, qubits, i, type)
         IN  IF step.threw THEN step ELSE GateLoop(step.qm, qubits, type, i + 1, n)

\* The oracle and diffusion loops, from iteration iter on.
RECURSIVE GroverLoop(_, _, _, _, _)
GroverLoop(qm, qubits, iter, iterations, n) ==
    IF iter >= iterations THEN QmReturned(qm, "undefined")
    ELSE LET oracle == GateLoop(qm, qubits, "PAULI_Z", 0, n)
         IN  IF oracle.threw THEN oracle
             ELSE LET diffusion == GateLoop(oracle.qm, qubits, "HADAMARD", 0, n)
                  IN  IF diffusion.threw THEN diffusion
                      ELSE GroverLoop(diffusion.qm, qubits, iter + 1, iterations, n)

\* for (i < n) measurements.push(measureQubit(i)), from i on, with the
\* results drawn; valid tells whether each is a result its call can give.
RECURSIVE QmMeasureLoop(_, _, _, _, _, _)
QmMeasureLoop(qm, qubits, i, n, results, bits) ==
    IF i >= n THEN [qm |-> qm, threw |-> FALSE, error |-> Null, valid |-> TRUE,
                    bits |-> bits]
    ELSE LET step == measureQubit(qm, qubits, i, results[i])
         IN  IF step.threw
             THEN [qm |-> step.qm, threw |-> TRUE, error |-> step.error,
                   valid |-> TRUE, bits |-> bits]
             ELSE IF results[i] \notin QmMeasureResults(qm.quantumStates[i].amplitude)
             THEN [qm |-> qm, threw |-> FALSE, error |-> Null, valid |-> FALSE,
                   bits |-> bits]
             ELSE QmMeasureLoop(step.qm, qubits, i + 1, n, results,
                                Append(bits, results[i]))

\* parseInt(measurements.join(''), 2) for a non-empty list of bits.
RECURSIVE BitsValue(_, _)
BitsValue(bits, i) ==
    IF i = 0 THEN 0 ELSE 2 * BitsValue(bits, i - 1) + bits[i]

\* What a task path of the processor hands on: both memories after its
\* changes, the outcome, and whether the draws are ones the path can make.
PathResult(outcome, qm, valid) ==
    [st |-> outcome.st, threw |-> outcome.threw, result |-> outcome.result,
     error |-> outcome.error, quantumOps |-> outcome.quantumOps,
     classicalOps |-> outcome.classicalOps, qm |-> qm, valid |-> valid]

quantumSearch(st, qm, qubits, data, results) ==
    IF ~data.defined \/ ~data.hasSearchSpace
    THEN PathResult(Threw(st, "TypeError"), qm, TRUE)
    ELSE LET searchSpace == data.searchSpace
             requiredQubits == CeilLog2(Len(searchSpace))
             iterations == GroverIterations(Len(searchSpace))
             prepared == SuperposeLoop(qm, qubits, 0, requiredQubits)
         IN  IF prepared.threw
             THEN PathResult(Threw(st, prepared.error), prepared.qm, TRUE)
             ELSE
             LET grover == GroverLoop(prepared.qm, qubits, 0, iterations,
                                      requiredQubits)
             IN  IF grover.threw
                 THEN PathResult(Threw(st, grover.error), grover.qm, TRUE)
                 ELSE
                 LET measured == QmMeasureLoop(grover.qm, qubits, 0, requiredQubits,
                                               results, <<>>)
                     foundIndex == BitsValue(measured.bits, Len(measured.bits))
                     found == IF measured.bits # <<>> /\ foundIndex < Len(searchSpace)
                              THEN <<searchSpace[foundIndex + 1]>>
                              ELSE <<>>
                     quantumOps == requiredQubits
                                   + iterations * (requiredQubits + requiredQubits)
                                   + requiredQubits
                 IN  IF measured.threw
                     THEN PathResult(Threw(st, measured.error), measured.qm, TRUE)
                     ELSE PathResult(
                             Returned(st, SearchResult(found,
                                          IF found = <<data.target>> THEN 85 ELSE 15),
                                      quantumOps, 5),
                             measured.qm, measured.valid)

\* The result object of hybridOptimization: solution and energy.
OptimizationResult(solution, energy) ==
    [kind |-> "optimization", number |-> energy, array |-> solution]

\* value || fallback for a number: 0 is the number that is not truthy.
OrElse(value, fallback) == IF value = 0 THEN fallback ELSE value

Min(a, b) == IF a < b THEN a ELSE b

Max(a, b) == IF a > b THEN a ELSE b

\* postprocessOptimization: quantumSolution.map over the positions (here
\* from 1); a position without a constraint keeps its value.
postprocessOptimization(quantumSolution, constraints) ==
    [idx \in 1..Len(quantumSolution) |->
        IF idx <= Len(constraints) /\ constraints[idx].defined
        THEN Max(OrElse(constraints[idx].min, 0),
                 Min(OrElse(constraints[idx].max, 1), quantumSolution[idx]))
        ELSE quantumSolution[idx]]

\* calculateEnergy: the values weighted by their position, from position i on.
RECURSIVE calculateEnergy(_, _)
calculateEnergy(solution, i) ==
    IF i > Len(solution) THEN 0
    ELSE solution[i] * i + calculateEnergy(solution, i + 1)

\* for (i < n) createSuperposition(i, Math.random(), Math.random()), from i
\* on, with the amplitudes drawn.
RECURSIVE DrawnSuperposeLoop(_, _, _, _, _)
DrawnSuperposeLoop(qm, qubits, i, n, draws) ==
    IF i >= n THEN QmReturned(qm, "undefined")
    ELSE LET step == createSuperposition(qm, qubits, i, draws[i].alpha, draws[i].beta)
         IN  IF step.threw THEN step
             ELSE DrawnSuperposeLoop(step.qm, qubits, i + 1, n, draws)

\* The hundred rotations the annealing loop applies to one qubit, by the
\* angles (1 - step / 100) * pi / 2, turn its amplitude pair by the sum of
\* their halves, 50.5 * pi / 4, which is 5 pi / 8 beyond full turns.
AnnealAngle == Angle(0 - 383, 924)

\* for (step < 100) for (i < n) applyGate(i, {type: 'ROTATION', angle}),
\* qubit by qubit from i on.
RECURSIVE AnnealLoop(_, _, _, _)
AnnealLoop(qm, qubits, i, n) ==
    IF i >= n THEN QmReturned(qm, "undefined")
    ELSE LET step == applyRotation(qm, qubits, i, AnnealAngle)
         IN  IF step.threw THEN step ELSE AnnealLoop(step.qm, qubits, i + 1, n)

\* hybridOptimization: destructuring undefined data, reading the variables
\* of an undefined problem and indexing undefined constraints throw a
\* TypeError.
hybridOptimization(st, qm, qubits, data, draws) ==
    IF ~data.defined \/ ~data.hasProblem
    THEN PathResult(Threw(st, "TypeError"), qm, TRUE)
    ELSE LET n == Min(qubits, Len(data.variables))
             prepared == DrawnSuperposeLoop(qm, qubits, 0, n, draws)
         IN  IF prepared.threw
             THEN PathResult(Threw(st, prepared.error), prepared.qm, TRUE)
             ELSE
             LET annealed == AnnealLoop(prepared.qm, qubits, 0, n)
             IN  IF annealed.threw
                 THEN PathResult(Threw(st, annealed.error), annealed.qm, TRUE)
                 ELSE
                 LET measured == QmMeasureLoop(annealed.qm, qubits, 0, n,
                                     [i \in 0..(n - 1) |-> draws[i].result], <<>>)
                     solution == measured.bits
                     optimizedSolution ==
                         postprocessOptimization(solution, data.constraints)
                 IN  IF measured.threw
                     THEN PathResult(Threw(st, measured.error), measured.qm, TRUE)
                     ELSE IF solution # <<>> /\ ~data.hasConstraints
                     THEN PathResult(Threw(st, "TypeError"), measured.qm,
                                     measured.valid)
                     ELSE PathResult(
                             Returned(st,
                                 OptimizationResult(optimizedSolution,
                                     calculateEnergy(optimizedSolution, 1)),
                                 n + 100 * n + n, 10 + 15),
                             measured.qm, measured.valid)

\* The types processHybridTask has a case for.
\* The key `parallel_task_${i}` of the i-th sub-task: the keys of the
\* parallel path are the negative addresses, those of the classical path
\* (`data_${i}`) the positive ones.
ParallelAddress(i) == 0 - (i + 1)

\* What parallelComputation returns: results and totalTasks.
ParallelResult(taskResults, totalTasks) ==
    [kind |-> "parallel", number |-> totalTasks, array |-> taskResults]

\* processParallelTask: an async function without an await, so it runs to
\* its end within the call that makes it. The draws are Math.random() > 0.5,
\* the qubit picked and the measurement result; `result.classicalOps || 1`
\* is 1 on either branch.
processParallelTask(qm, qubits, task, draw) ==
    IF draw.useQuantum
    THEN LET created == createSuperposition(qm, qubits, draw.qubit, SqrtHalf, SqrtHalf)
             measured == measureQubit(created.qm, qubits, draw.qubit, draw.result)
         IN  [qm |-> measured.qm, threw |-> measured.threw, error |-> measured.error,
              result |-> draw.result, quantumOps |-> 2, classicalOps |-> 1,
              valid |-> /\ draw.qubit < qubits
                        /\ draw.result \in QmMeasureResults(
                               created.qm.quantumStates[draw.qubit].amplitude)]
    ELSE [qm |-> qm, threw |-> FALSE, error |-> Null, result |-> task * 2,
          quantumOps |-> 0, classicalOps |-> 1, valid |-> TRUE]

\* One round of parallelComputation's loop, up to its await: the write of
\* sub-task i and processParallelTask; the counts it adds after the await
\* touch only the call's own variables (taskResults, quantumOps and
\* classicalOps, handed in as sofar) and are taken in here.
parallelIteration(st, qm, qubits, tasks, i, timestamp, draw, sofar) ==
    LET written == writeState(st, ParallelAddress(i), tasks[i + 1], timestamp)
        sub == processParallelTask(qm, qubits, tasks[i + 1], draw)
    IN  IF sub.threw
        THEN PathResult(Threw(written, sub.error), sub.qm, sub.valid)
        ELSE PathResult(Returned(written,
                                 ParallelResult(Append(sofar.taskResults, sub.result),
                                                Len(tasks)),
                                 sofar.quantumOps + sub.quantumOps,
                                 sofar.classicalOps + 1 + sub.classicalOps),
                        sub.qm, sub.valid)

\* parallelComputation up to its first await: the first round of the loop,
\* or the whole function when there is no sub-task.
parallelComputation(st, qm, qubits, data, timestamp, draw) ==
    IF ~data.defined \/ ~data.hasTasks
    THEN PathResult(Threw(st, "TypeError"), qm, TRUE)
    ELSE IF Len(data.tasks) = 0
    THEN PathResult(Returned(st, ParallelResult(<<>>, 0), 0, 0), qm, TRUE)
    ELSE parallelIteration(st, qm, qubits, data.tasks, 0, timestamp, draw,
                           [taskResults |-> <<>>, quantumOps |-> 0,
                            classicalOps |-> 0])

NamedTypes ==
    {"QUANTUM_SEARCH", "HYBRID_OPTIMIZATION", "QUANTUM_SIMULATION",
     "PARALLEL_COMPUTATION"}

\* The number of measurement results a task draws.
TaskQubits(task) ==
    IF task.defined /\ task.type = "QUANTUM_SEARCH" /\ task.data.defined
       /\ task.data.hasSearchSpace
    THEN CeilLog2(Len(task.data.searchSpace))
    ELSE 0

\* processHybridTask: destructuring an undefined task throws; a type that is
\* none of the four named ones takes the default branch. Of the named types
\* the tasks explored here have QUANTUM_SEARCH, HYBRID_OPTIMIZATION and
\* PARALLEL_COMPUTATION; the draws are the measurement results of a search,
\* the amplitudes and results of an optimization, and the draws of the first
\* sub-task of a parallel computation.
processHybridTask(st, qm, qubits, task, timestamp, results) ==
    IF ~task.defined THEN PathResult(Threw(st, "TypeError"), qm, TRUE)
    ELSE IF task.type = "QUANTUM_SEARCH"
    THEN quantumSearch(st, qm, qubits, task.data, results)
    ELSE IF task.type = "HYBRID_OPTIMIZATION"
    THEN hybridOptimization(st, qm, qubits, task.data, results)
    ELSE IF task.type = "PARALLEL_COMPUTATION"
    THEN parallelComputation(st, qm, qubits, task.data, timestamp, results)
    ELSE IF task.type \in NamedTypes
    THEN PathResult(Threw(st, "not explored"), qm, FALSE)
    ELSE PathResult(classicalComputation(st, task.data, timestamp), qm, TRUE)

\* The record executeTask pushes in its try block.
SuccessRecord(p, finished) ==
    [taskId |-> p.call, task |-> p.task, failed |-> FALSE,
     result |-> <<p.outcome.result>>, error |-> <<>>,
     executionTime |-> finished - p.startTime, timestamp |-> p.startTime,
     quantumOperations |-> <<p.outcome.quantumOps>>,
     classicalOperations |-> <<p.outcome.classicalOps>>]

\* The record executeTask pushes in its catch block.
FailureRecord(p, finished) ==
    [taskId |-> p.call, task |-> p.task, failed |-> TRUE,
     result |-> <<>>, error |-> <<p.outcome.error>>,
     executionTime |-> finished - p.startTime, timestamp |-> p.startTime,
     quantumOperations |-> <<>>, classicalOperations |-> <<>>]

\* executeTask up to its await: processHybridTask runs within the call, with
\* the writes of its task path, and the call is suspended on its promise.
executeTask(task, results) ==
    /\ taskCount < MaxTasks
    /\ \E path \in {processHybridTask([memory |-> memory, cacheL1 |-> cacheL1,
                                        accessHistory |-> accessHistory],
                                       quantumMemory, QmQubits, task, now, results)} :
           /\ path.valid
           /\ memory' = path.st.memory
           /\ cacheL1' = path.st.cacheL1
           /\ accessHistory' = path.st.accessHistory
           /\ quantumMemory' = path.qm
           /\ pendingTasks' = pendingTasks \cup
                  {[call |-> taskCount + 1, task |-> task, startTime |-> now,
                    outcome |-> [threw |-> path.threw, result |-> path.result,
                                 error |-> path.error,
                                 quantumOps |-> path.quantumOps,
                                 classicalOps |-> path.classicalOps]]}
    /\ taskCount' = taskCount + 1
    /\ UNCHANGED <<now, cacheL2, cacheL3, hitRates, memRet, executionHistory, procRet>>

\* A suspended parallelComputation with rounds of its loop left.
InLoop(p) ==
    /\ p.task.defined
    /\ p.task.type = "PARALLEL_COMPUTATION"
    /\ ~p.outcome.threw
    /\ Len(p.outcome.result.array) < p.outcome.result.number

\* parallelComputation resumed after `await this.processParallelTask(...)`:
\* the next round of its loop, up to the await of that round.
parallelComputationResumed(p, draw) ==
    /\ p \in pendingTasks
    /\ InLoop(p)
    /\ \E path \in {parallelIteration([memory |-> memory, cacheL1 |-> cacheL1,
                                       accessHistory |-> accessHistory],
                                      quantumMemory, QmQubits, p.task.data.tasks,
                                      Len(p.outcome.result.array), now, draw,
                                      [taskResults |-> p.outcome.result.array,
                                       quantumOps |-> p.outcome.quantumOps,
                                       classicalOps |-> p.outcome.classicalOps])} :
           /\ path.valid
           /\ memory' = path.st.memory
           /\ cacheL1' = path.st.cacheL1
           /\ accessHistory' = path.st.accessHistory
           /\ quantumMemory' = path.qm
           /\ pendingTasks' = (pendingTasks \ {p}) \cup
                  {[p EXCEPT !.outcome = [threw |-> path.threw, result |-> path.result,
                                          error |-> path.error,
                                          quantumOps |-> path.quantumOps,
                                          classicalOps |-> path.classicalOps]]}
    /\ UNCHANGED <<now, cacheL2, cacheL3, hitRates, memRet, executionHistory, procRet,
                   taskCount>>

\* An executeTask whose catch block rethrows without recording.
executeTaskSettledUnrecorded(p) ==
    /\ p \in pendingTasks
    /\ pendingTasks' = pendingTasks \ {p}
    /\ IF p.outcome.threw
       THEN /\ UNCHANGED executionHistory
            /\ procRet' = [op |-> "executeTask", call |-> p.call, threw |-> TRUE]
       ELSE /\ executionHistory' = Append(executionHistory, SuccessRecord(p, now))
            /\ procRet' = [op |-> "executeTask", call |-> p.call, threw |-> FALSE]
    /\ UNCHANGED <<cacheVars, taskCount, quantumMemory>>

\* executeTask resumed: the record is pushed in the try block and returned,
\* or pushed in the catch block before the error is thrown again.
executeTaskSettled(p) ==
    /\ p \in pendingTasks
    /\ pendingTasks' = pendingTasks \ {p}
    /\ IF p.outcome.threw
       THEN /\ executionHistory' = Append(executionHistory, FailureRecord(p, now))
            /\ procRet' = [op |-> "executeTask", call |-> p.call, threw |-> TRUE]
       ELSE /\ executionHistory' = Append(executionHistory, SuccessRecord(p, now))
            /\ procRet' = [op |-> "executeTask", call |-> p.call, threw |-> FALSE]
    /\ UNCHANGED <<cacheVars, taskCount, quantumMemory>>

\* Array.prototype.slice(begin) with an integer begin: a negative begin
\* counts from the end, and -0 is 0.
SliceFrom(list, begin) ==
    LET start == IF begin < 0 THEN Max(Len(list) + begin, 0)
                 ELSE Min(begin, Len(list))
    IN  SubSeq(list, start + 1, Len(list))

\* getExecutionHistory(limit): this.executionHistory.slice(-limit).
getExecutionHistory(limit) ==
    /\ procRet' = [op |-> "getExecutionHistory", limit |-> limit,
                   history |-> SliceFrom(executionHistory, 0 - limit)]
    /\ UNCHANGED <<cacheVars, executionHistory, pendingTasks, taskCount, quantumMemory>>

\* startProcessing and stopProcessing: the flag is assigned whatever it was.
startProcessing == processorIsRunning' = TRUE

stopProcessing == processorIsRunning' = FALSE

\* What a handler of ProcessorController sends: res.json(...) with status 200,
\* or res.status(code).json({success: false, error}).
Response(previous, op, status, error) ==
    [request |-> previous.request + 1, op |-> op, status |-> status,
     success |-> status = 200, error |-> error]

\* ProcessorController.startProcessor: startProcessing has no await and does
\* not throw, so the handler's own await resumes with nothing to report but
\* success.
startProcessor ==
    /\ startProcessing
    /\ response' = Response(response, "startProcessor", 200, Null)

\* ProcessorController.stopProcessor.
stopProcessor ==
    /\ stopProcessing
    /\ response' = Response(response, "stopProcessor", 200, Null)

\* ProcessorController.executeTask up to its await: a missing task and a
\* falsy type are answered with status 400; any other task is handed to
\* processor.executeTask.
executeTaskRequest(task, results) ==
    IF ~task.defined \/ task.type = Null
    THEN /\ response' = Response(response, "executeTask", 400, "Task type is required")
         /\ UNCHANGED <<cacheVars, procVars, quantumMemory, processorIsRunning>>
    ELSE /\ executeTask(task, results)
         /\ UNCHANGED ctlVars

\* ProcessorController.executeTask resumed: the record as data, or status 500
\* with the message of the error executeTask threw again.
executeTaskResponded(p) ==
    /\ executeTaskSettled(p)
    /\ response' = IF p.outcome.threw
                   THEN Response(response, "executeTask", 500, p.outcome.error)
                   ELSE Response(response, "executeTask", 200, Null)
    /\ UNCHANGED processorIsRunning

InitCache ==
    /\ now = 0
    /\ memory = <<>>
    /\ cacheL1 = <<>>
    /\ cacheL2 = <<>>
    /\ cacheL3 = <<>>
    /\ accessHistory = <<>>
    /\ hitRates = [L1 |-> 0, L2 |-> 0, L3 |-> 0]
    /\ memRet = [op |-> "none"]

InitQuantum ==
    /\ quantumStates = <<>>
    /\ entanglementPairs = {}
    /\ qsCalls = 0
    /\ qsRet = [op |-> "none"]

InitSim ==
    /\ isRunning = FALSE
    /\ simulationInterval = NoTimer
    /\ stepCount = 0
    /\ startTime = <<>>
    /\ metrics = ZeroMetrics
    /\ performanceHistory = <<>>
    /\ currentPerformance = <<>>
    /\ currentAlgorithm = Null
    /\ classicalMemorySize = <<>>
    /\ timers = {}
    /\ timerCount = 0
    /\ pendingStarts = {}
    /\ lastTick = "none"
    /\ simRet = [op |-> "none"]

InitProc ==
    /\ executionHistory = <<>>
    /\ pendingTasks = {}
    /\ taskCount = 0
    /\ procRet = [op |-> "none"]

InitQm ==
    /\ quantumMemory = newQuantumMemory(QmQubits)
    /\ qmCalls = 0
    /\ qmRet = [op |-> "none"]

InitController ==
    /\ processorIsRunning = FALSE
    /\ response = [request |-> 0, op |-> "none", status |-> 0, success |-> FALSE,
                   error |-> Null]

Init == InitCache /\ InitQuantum /\ InitSim /\ InitProc /\ InitQm /\ InitController

otherThanCache == <<quantumVars, simVars, procVars, qmVars, qsCallVars, ctlVars>>

\* ClassicalMemory alone: write and read calls, and the clock.
NextCache ==
    \/ \E a \in Addresses : Write(a, NextPayload) /\ UNCHANGED otherThanCache
    \/ \E a \in Addresses : Read(a) /\ UNCHANGED otherThanCache
    \/ /\ ClockTick
       /\ UNCHANGED <<memory, cacheL1, cacheL2, cacheL3, accessHistory, hitRates,
                      memRet, otherThanCache>>

SpecCache == Init /\ [][NextCache]_vars

\* The payloads of the next write: one of its own, or undefined.
Payloads == {NextPayload, UndefinedValue}

\* ClassicalMemory with its statistics: write calls with any payload, read
\* and getMemoryStats calls, and the clock.
NextMemory ==
    \/ \E a \in Addresses, data \in Payloads :
          Write(a, data) /\ UNCHANGED otherThanCache
    \/ \E a \in Addresses : Read(a) /\ UNCHANGED otherThanCache
    \/ getMemoryStats /\ UNCHANGED otherThanCache
    \/ /\ ClockTick
       /\ UNCHANGED <<memory, cacheL1, cacheL2, cacheL3, accessHistory, hitRates,
                      memRet, otherThanCache>>

SpecMemory == Init /\ [][NextMemory]_vars

\* The draws a tick of the given timer can make.
TickDraws(timer, throwAt) ==
    IF throwAt = "step"
       \/ (currentAlgorithm # Null /\ currentAlgorithm \notin {"shor", "vqe"})
    THEN {CHOOSE r \in AlgorithmDraws : r.outcome = 0}
    ELSE IF currentAlgorithm # Null THEN AlgorithmDraws
    ELSE RandomDraws(Len(quantumStates), timer.hybridMode)

\* The amplitudes drawn for a configuration; none are drawn, and the
\* configuration is not read, when the call is turned away.
AmpDraws(config) ==
    IF isRunning THEN {<<>>} ELSE [1..config.qubits -> InitialAmps]

\* A startSimulation call with a configuration from configs.
StartCall(configs) ==
    \E config \in IF isRunning THEN {CHOOSE c \in configs : TRUE} ELSE configs :
        \E amps \in AmpDraws(config) : startSimulation(config, amps)

\* A suspended startSimulation call is resumed.
StartResumed ==
    \/ \E p \in pendingStarts : startAfterQuantum(p)
    \/ \E p \in pendingStarts : startAfterClassical(p)

\* The callback of an armed timer runs.
TimerFires ==
    \E timer \in timers, throwAt \in ThrowPoints :
        \E r \in TickDraws(timer, throwAt) : simulationStep(timer, r, throwAt)

cacheFrame == <<memory, cacheL1, cacheL2, cacheL3, accessHistory, hitRates, memRet>>

otherThanSim == <<cacheFrame, procVars, qmVars, qsCallVars, ctlVars>>

\* The start configurations of the life cycle runs.
LifecycleConfigs ==
    [qubits : {1}, algorithm : {"grover"}, memorySize : {1024, -1},
     hybridMode : {FALSE}]

\* The scheduler's life cycle: start, stop and reset calls in any order, also
\* while a start is suspended, the continuations of suspended starts, and
\* the callbacks of every armed timer.
NextSim ==
    \/ StartCall(LifecycleConfigs) /\ UNCHANGED otherThanSim
    \/ StartResumed /\ UNCHANGED otherThanSim
    \/ stopSimulation /\ UNCHANGED otherThanSim
    \/ reset /\ UNCHANGED otherThanSim
    \/ TimerFires /\ UNCHANGED otherThanSim

SpecSim == Init /\ [][NextSim]_vars

\* The start configurations of the single runs.
TickConfigs ==
    [qubits : {1}, algorithm : {Null, "grover"}, memorySize : {1024},
     hybridMode : {FALSE}]

\* One run of the scheduler: a start from the state after construction, the
\* ticks of its timer with every draw, and start, stop and reset calls made
\* during the run and after it.
NextTicks ==
    \/ (timerCount = 0 \/ isRunning) /\ StartCall(TickConfigs)
          /\ UNCHANGED otherThanSim
    \/ StartResumed /\ UNCHANGED otherThanSim
    \/ stopSimulation /\ UNCHANGED otherThanSim
    \/ reset /\ UNCHANGED otherThanSim
    \/ TimerFires /\ UNCHANGED otherThanSim

SpecTicks == Init /\ [][NextTicks]_vars

\* The start configuration of the runs with counters: two qubits and random
\* operations in hybrid mode, so that every counter is counted up.
MetricConfigs ==
    [qubits : {2}, algorithm : {Null}, memorySize : {1024}, hybridMode : {TRUE}]

\* The amplitudes drawn in these runs: alpha = 0 for both qubits.
MetricAmps == [i \in 1..2 |-> RealAmp(0, 1, 0)]

\* The circuits handed to executeCircuit: two gates on q0 and q1, a circuit
\* whose second gate names an id that is not in the register, and a circuit
\* without a gates list.
Circuits ==
    {[hasGates |-> TRUE, gates |-> gates] :
        gates \in {<<Gate("CNOT", 1, 0), EntangleGate(0, 1)>>,
                   <<Gate("MEASURE", 0, NoQubit), Gate("X", 2, NoQubit),
                     Gate("Z", 0, NoQubit)>>}}
    \cup {[hasGates |-> FALSE, gates |-> <<>>]}

\* The outcome drawn by the measurement of a circuit, if it makes one.
CircuitDraws(circuit) ==
    IF \E i \in 1..Len(circuit.gates) : circuit.gates[i].type = "MEASURE"
    THEN {0, 1} ELSE {0}

\* The places where a tick of these runs is let throw.
MetricThrowPoints == {"none", "decoherence"}

\* The tick draws explored in the runs with counters: a Hadamard gate or a
\* measurement on the first qubit, the entanglement of the two qubits or
\* none, and the largest numbers of reads and writes.
MetricDraws(timer, throwAt) ==
    {r \in TickDraws(timer, throwAt) :
        /\ r.qubit = 1
        /\ r.operation \in {0, 3}
        /\ r.doEntangle => (r.q1 = 1 /\ r.q2 = 2)
        /\ r.reads = 2 /\ r.writes = 1}

\* The scheduler with its counters: start, stop, reset and executeCircuit
\* calls in any order, the continuations of suspended starts, and ticks.
NextMetrics ==
    \/ /\ \E config \in MetricConfigs : startSimulation(config, MetricAmps)
       /\ UNCHANGED otherThanSim
    \/ StartResumed /\ UNCHANGED otherThanSim
    \/ stopSimulation /\ UNCHANGED otherThanSim
    \/ reset /\ UNCHANGED otherThanSim
    \/ /\ stepCount < MetricSteps
       /\ \E timer \in timers, throwAt \in MetricThrowPoints :
             \E r \in MetricDraws(timer, throwAt) : simulationStep(timer, r, throwAt)
       /\ UNCHANGED otherThanSim
    \/ /\ \E circuit \in Circuits :
             \E outcome \in CircuitDraws(circuit) : executeCircuit(circuit, outcome)
       /\ UNCHANGED otherThanSim

SpecMetrics == Init /\ [][NextMetrics]_vars

\* The start configuration of the runs that entangle: three qubits and
\* random operations.
EntangleConfigs ==
    [qubits : {3}, algorithm : {Null}, memorySize : {1024}, hybridMode : {FALSE}]

\* The amplitudes drawn in these runs: alpha = 0 for every qubit.
EntangleAmps == [i \in 1..3 |-> RealAmp(0, 1, 0)]

\* The draws of a tick of these runs: the gate branch draws q0 and either
\* no operation or a measurement; the entanglement branch draws any two
\* qubits.
EntangleTickDraws(timer) ==
    {r \in TickDraws(timer, "none") : r.qubit = 1 /\ r.operation = 3}

\* The scheduler in random-operation mode on three qubits: start, stop and
\* reset calls in any order, the continuations of suspended starts, and
\* ticks; no entangle or executeCircuit call is made from outside.
NextEntangle ==
    \/ /\ \E config \in EntangleConfigs : startSimulation(config, EntangleAmps)
       /\ UNCHANGED otherThanSim
    \/ StartResumed /\ UNCHANGED otherThanSim
    \/ stopSimulation /\ UNCHANGED otherThanSim
    \/ reset /\ UNCHANGED otherThanSim
    \/ /\ stepCount < EntangleSteps
       /\ \E timer \in timers :
             \E r \in EntangleTickDraws(timer) : simulationStep(timer, r, "none")
       /\ UNCHANGED otherThanSim

SpecEntangle == Init /\ [][NextEntangle]_vars

\* The start configurations of the algorithm runs: each algorithm of the
\* catalog on two qubits.
AlgorithmConfigs ==
    [qubits : {2}, algorithm : AlgorithmKeys, memorySize : {1024},
     hybridMode : {FALSE}]

\* One run of each algorithm: a start from the state after construction,
\* the ticks of its timer, each run to its end, and a stop.
NextSteps ==
    \/ timerCount = 0 /\ StartCall(AlgorithmConfigs) /\ UNCHANGED otherThanSim
    \/ StartResumed /\ UNCHANGED otherThanSim
    \/ stopSimulation /\ UNCHANGED otherThanSim
    \/ /\ \E timer \in timers :
             \E r \in TickDraws(timer, "none") : simulationStep(timer, r, "none")
       /\ UNCHANGED otherThanSim

SpecSteps == Init /\ [][NextSteps]_vars

otherThanController == <<quantumVars, simVars, qmCalls, qmRet, qsCallVars>>

otherThanProc == <<otherThanController, ctlVars>>

\* The measurement results a task can ask for.
TaskDraws(task) == [0..(TaskQubits(task) - 1) -> {0, 1}]

\* The task executor: executeTask calls, also while earlier ones are
\* suspended, their continuations, and the clock.
NextProc ==
    \/ \E task \in Tasks : \E results \in TaskDraws(task) :
          executeTask(task, results) /\ UNCHANGED otherThanProc
    \/ \E p \in pendingTasks : executeTaskSettled(p) /\ UNCHANGED otherThanProc
    \/ /\ ClockTick
       /\ UNCHANGED <<memory, cacheL1, cacheL2, cacheL3, accessHistory, hitRates,
                      memRet, procVars, quantumMemory, otherThanProc>>

SpecProc == Init /\ [][NextProc]_vars

\* The task executor with tasks of the classical path and of the search
\* path.
NextPaths ==
    \/ \E task \in PathTasks : \E results \in TaskDraws(task) :
          executeTask(task, results) /\ UNCHANGED otherThanProc
    \/ \E p \in pendingTasks : executeTaskSettled(p) /\ UNCHANGED otherThanProc
    \/ /\ ClockTick
       /\ UNCHANGED <<memory, cacheL1, cacheL2, cacheL3, accessHistory, hitRates,
                      memRet, procVars, quantumMemory, otherThanProc>>

SpecPaths == Init /\ [][NextPaths]_vars

\* The optimizations explored: one variable, with the bounds of its
\* constraint on either side of the values a measurement gives, with a
\* missing constraint and with an empty constraints list.
OptimizationTasks ==
    {OptimizationTask(<<"x">>, constraints) :
        constraints \in {<<Constraint(0, 1)>>, <<Constraint(0, 0)>>,
                         <<Constraint(1, 1)>>, <<Constraint(0 - 1, 0)>>,
                         <<Constraint(2, 3)>>, <<NoConstraint>>, <<>>}}

\* The draws of an optimization: per qubit the two amplitudes, each
\* Math.random(), explored at 0 and 0.5, and the measurement result.
OptimizationDraws(task) ==
    [0..(Min(QmQubits, Len(task.data.variables)) - 1) ->
        [alpha : {0, 500}, beta : {0, 500}, result : {0, 1}]]

\* The processor's optimization path: two executeTask calls, which may
\* overlap, and the clock.
NextOptimize ==
    \/ /\ taskCount < MaxOptimizations
       /\ \E task \in OptimizationTasks :
             \E draws \in OptimizationDraws(task) : executeTask(task, draws)
       /\ UNCHANGED otherThanProc
    \/ \E p \in pendingTasks : executeTaskSettled(p) /\ UNCHANGED otherThanProc
    \/ /\ ClockTick
       /\ UNCHANGED <<memory, cacheL1, cacheL2, cacheL3, accessHistory, hitRates,
                      memRet, procVars, otherThanProc, quantumMemory>>

SpecOptimize == Init /\ [][NextOptimize]_vars

\* The parallel computations explored: two sub-tasks, one, none, and data
\* without a tasks list.
ParallelTasks ==
    {ParallelTask(<<1, 2>>), ParallelTask(<<3>>), ParallelTask(<<>>),
     [ParallelTask(<<>>) EXCEPT !.data.hasTasks = FALSE]}

\* The draws of one sub-task: Math.random() > 0.5, the qubit picked and the
\* measurement result.
ParallelDraws == [useQuantum : BOOLEAN, qubit : {0, 1}, result : {0, 1}]

\* The task executor with parallel computations: a call may be made while
\* earlier ones are suspended in their loop; a suspended call goes on with
\* its next round, and settles after its last.
NextParallel ==
    \/ /\ taskCount < MaxParallel
       /\ \E task \in ParallelTasks : \E draw \in ParallelDraws : executeTask(task, draw)
       /\ UNCHANGED otherThanProc
    \/ \E p \in pendingTasks : \E draw \in ParallelDraws :
          parallelComputationResumed(p, draw) /\ UNCHANGED otherThanProc
    \/ \E p \in pendingTasks :
          ~InLoop(p) /\ executeTaskSettled(p) /\ UNCHANGED otherThanProc
    \/ /\ ClockTick
       /\ UNCHANGED <<memory, cacheL1, cacheL2, cacheL3, accessHistory, hitRates,
                      memRet, procVars, otherThanProc, quantumMemory>>

SpecParallel == Init /\ [][NextParallel]_vars

\* The tasks the controller is sent: no task, a task without type, a sum, a
\* search without data and an optimization without constraints.
ControllerTasks ==
    {[defined |-> FALSE, type |-> Null, data |-> NoData],
     [ClassicalTask("SUM", <<1, 2>>) EXCEPT !.type = Null],
     ClassicalTask("SUM", <<1, 2>>),
     [defined |-> TRUE, type |-> "QUANTUM_SEARCH", data |-> NoData],
     [OptimizationTask(<<"x">>, <<>>) EXCEPT !.data.hasConstraints = FALSE]}

\* The draws of a task the controller is sent.
ControllerDraws(task) ==
    IF task.type = "HYBRID_OPTIMIZATION" THEN OptimizationDraws(task)
    ELSE TaskDraws(task)

\* The limits getExecutionHistory is called with.
HistoryLimits == 0..3

\* The controller and the processor it drives: start, stop and executeTask
\* requests in any order, the responses of the tasks handed on, and
\* getExecutionHistory calls.
NextController ==
    \/ /\ response.request < MaxRequests
       /\ startProcessor
       /\ UNCHANGED <<cacheVars, procVars, quantumMemory, otherThanController>>
    \/ /\ response.request < MaxRequests
       /\ stopProcessor
       /\ UNCHANGED <<cacheVars, procVars, quantumMemory, otherThanController>>
    \/ /\ response.request < MaxRequests
       /\ taskCount < MaxControllerTasks
       /\ \E task \in ControllerTasks : \E results \in ControllerDraws(task) :
             executeTaskRequest(task, results)
       /\ UNCHANGED otherThanController
    \/ \E p \in pendingTasks : executeTaskResponded(p) /\ UNCHANGED otherThanController
    \/ \E limit \in HistoryLimits :
          getExecutionHistory(limit) /\ UNCHANGED <<otherThanController, ctlVars>>

SpecController == Init /\ [][NextController]_vars

(***************************************************************************)
(* Calls made on a QuantumService directly. A call either returns or       *)
(* throws; qsRet keeps which, with the ids it was given.                   *)
(***************************************************************************)
QubitIds == 0..(NumQubitIds - 1)

\* The amplitudes a caller creates a qubit with: the default alpha = 1,
\* beta = 0, and the normalized pairs of InitialAmps.
CreateAmps == InitialAmps \cup {BasisZero}

QsReturned(op, id, other) ==
    [op |-> op, id |-> id, other |-> other, threw |-> FALSE, error |-> Null,
     isNull |-> FALSE, measurement |-> NoQubit]

QsReturnedNull(op, id, other) ==
    [QsReturned(op, id, other) EXCEPT !.isNull = TRUE]

QsThrew(op, id, other, message) ==
    [QsReturned(op, id, other) EXCEPT !.threw = TRUE, !.error = message]

createQubitCall(id, amp) ==
    /\ qsCalls < MaxQsCalls
    /\ qsCalls' = qsCalls + 1
    /\ quantumStates' = createQubit(quantumStates, id, amp)
    /\ qsRet' = QsReturned("createQubit", id, NoQubit)
    /\ UNCHANGED entanglementPairs

\* A one-qubit gate: if (!qubit) throw new Error(`Qubit ${qubitId} not found`)
hadamardGateCall(id) ==
    /\ qsCalls < MaxQsCalls
    /\ qsCalls' = qsCalls + 1
    /\ IF ~HasQubit(quantumStates, id)
       THEN /\ qsRet' = QsThrew("hadamardGate", id, NoQubit, "Qubit not found")
            /\ UNCHANGED quantumStates
       ELSE /\ quantumStates' = hadamardGate(quantumStates, id)
            /\ qsRet' = QsReturned("hadamardGate", id, NoQubit)
    /\ UNCHANGED entanglementPairs

xGateCall(id) ==
    /\ qsCalls < MaxQsCalls
    /\ qsCalls' = qsCalls + 1
    /\ IF ~HasQubit(quantumStates, id)
       THEN /\ qsRet' = QsThrew("xGate", id, NoQubit, "Qubit not found")
            /\ UNCHANGED quantumStates
       ELSE /\ quantumStates' = xGate(quantumStates, id)
            /\ qsRet' = QsReturned("xGate", id, NoQubit)
    /\ UNCHANGED entanglementPairs

zGateCall(id) ==
    /\ qsCalls < MaxQsCalls
    /\ qsCalls' = qsCalls + 1
    /\ IF ~HasQubit(quantumStates, id)
       THEN /\ qsRet' = QsThrew("zGate", id, NoQubit, "Qubit not found")
            /\ UNCHANGED quantumStates
       ELSE /\ quantumStates' = zGate(quantumStates, id)
            /\ qsRet' = QsReturned("zGate", id, NoQubit)
    /\ UNCHANGED entanglementPairs

\* entangle: throws 'One or both qubits not found' before any assignment.
entangleCall(id1, id2) ==
    /\ qsCalls < MaxQsCalls
    /\ qsCalls' = qsCalls + 1
    /\ IF ~HasQubit(quantumStates, id1) \/ ~HasQubit(quantumStates, id2)
       THEN /\ qsRet' = QsThrew("entangle", id1, id2, "One or both qubits not found")
            /\ UNCHANGED <<quantumStates, entanglementPairs>>
       ELSE /\ quantumStates' = entangle(quantumStates, id1, id2)
            /\ entanglementPairs' = entanglePairs(entanglementPairs, id1, id2)
            /\ qsRet' = QsReturned("entangle", id1, id2)

\* measure(qubitId) with the outcome its draw gives.
measureCall(id, outcome) ==
    /\ qsCalls < MaxQsCalls
    /\ qsCalls' = qsCalls + 1
    /\ IF ~HasQubit(quantumStates, id)
       THEN /\ outcome = 0
            /\ qsRet' = QsThrew("measure", id, NoQubit, "Qubit not found")
            /\ UNCHANGED quantumStates
       ELSE /\ outcome \in MeasureOutcomes(GetQubit(quantumStates, id).amp)
            /\ quantumStates' = measure(quantumStates, id, outcome)
            /\ qsRet' = [QsReturned("measure", id, NoQubit)
                             EXCEPT !.measurement = outcome]
    /\ UNCHANGED entanglementPairs

\* controlledPhaseGate: if (!control || !target) return null
controlledPhaseGateCall(controlId, targetId) ==
    /\ qsCalls < MaxQsCalls
    /\ qsCalls' = qsCalls + 1
    /\ quantumStates' = controlledPhaseGate(quantumStates, controlId, targetId)
    /\ qsRet' = IF ~HasQubit(quantumStates, controlId)
                    \/ ~HasQubit(quantumStates, targetId)
                 THEN QsReturnedNull("controlledPhaseGate", controlId, targetId)
                 ELSE QsReturned("controlledPhaseGate", controlId, targetId)
    /\ UNCHANGED entanglementPairs

\* applyDecoherence: if (!qubit) return null
applyDecoherenceCall(id) ==
    /\ qsCalls < MaxQsCalls
    /\ qsCalls' = qsCalls + 1
    /\ quantumStates' = applyDecoherenceQubit(quantumStates, id)
    /\ qsRet' = IF ~HasQubit(quantumStates, id)
                 THEN QsReturnedNull("applyDecoherence", id, NoQubit)
                 ELSE QsReturned("applyDecoherence", id, NoQubit)
    /\ UNCHANGED entanglementPairs

(***************************************************************************)
(* Calls made on a QuantumMemory directly, with indexes from -1 (negative) *)
(* to qubits (too large).                                                  *)
(***************************************************************************)
QmIndexes == (0 - 1)..QmQubits

\* A call that ended as the operation's outcome says.
QmEnded(op, index, other, outcome) ==
    /\ quantumMemory' = outcome.qm
    /\ qmRet' = [op |-> op, index |-> index, other |-> other,
                 threw |-> outcome.threw, error |-> outcome.error,
                 value |-> outcome.value]

createSuperpositionCall(qubitIndex) ==
    /\ qmCalls < MaxQmCalls
    /\ qmCalls' = qmCalls + 1
    /\ QmEnded("createSuperposition", qubitIndex, Null,
               createSuperposition(quantumMemory, QmQubits, qubitIndex,
                                   SqrtHalf, SqrtHalf))

entangleQubitsCall(qubit1, qubit2) ==
    /\ qmCalls < MaxQmCalls
    /\ qmCalls' = qmCalls + 1
    /\ QmEnded("entangleQubits", qubit1, qubit2,
               entangleQubits(quantumMemory, QmQubits, qubit1, qubit2))

measureQubitCall(qubitIndex, result) ==
    /\ qmCalls < MaxQmCalls
    /\ qmCalls' = qmCalls + 1
    /\ IF qubitIndex < QmQubits /\ QmHasState(quantumMemory, qubitIndex)
       THEN result \in QmMeasureResults(
                          quantumMemory.quantumStates[qubitIndex].amplitude)
       ELSE result = 0
    /\ QmEnded("measureQubit", qubitIndex, Null,
               measureQubit(quantumMemory, QmQubits, qubitIndex, result))

applyGateCall(qubitIndex, type) ==
    /\ qmCalls < MaxQmCalls
    /\ qmCalls' = qmCalls + 1
    /\ QmEnded("applyGate", qubitIndex, type,
               applyGate(quantumMemory, QmQubits, qubitIndex, type))

qsFrame == <<cacheVars, simVars, procVars, qmVars, ctlVars>>

qmFrame == <<cacheVars, simVars, procVars, quantumVars, qsCallVars, ctlVars>>

\* The gate engines on their own: a run drives either a QuantumService or a
\* QuantumMemory (the two share no state) with calls in any order, ids and
\* indexes that are absent or out of range included.
NextGates ==
    \/ \E id \in QubitIds, amp \in CreateAmps :
          qmCalls = 0 /\ createQubitCall(id, amp) /\ UNCHANGED qsFrame
    \/ \E id \in QubitIds :
          qmCalls = 0 /\ hadamardGateCall(id) /\ UNCHANGED qsFrame
    \/ \E id \in QubitIds : qmCalls = 0 /\ xGateCall(id) /\ UNCHANGED qsFrame
    \/ \E id \in QubitIds : qmCalls = 0 /\ zGateCall(id) /\ UNCHANGED qsFrame
    \/ \E id1, id2 \in QubitIds :
          qmCalls = 0 /\ entangleCall(id1, id2) /\ UNCHANGED qsFrame
    \/ \E id \in QubitIds, outcome \in {0, 1} :
          qmCalls = 0 /\ measureCall(id, outcome) /\ UNCHANGED qsFrame
    \/ \E id1, id2 \in QubitIds :
          qmCalls = 0 /\ controlledPhaseGateCall(id1, id2) /\ UNCHANGED qsFrame
    \/ \E id \in QubitIds :
          qmCalls = 0 /\ applyDecoherenceCall(id) /\ UNCHANGED qsFrame
    \/ \E i \in QmIndexes :
          qsCalls = 0 /\ createSuperpositionCall(i) /\ UNCHANGED qmFrame
    \/ \E i, j \in QmIndexes :
          qsCalls = 0 /\ entangleQubitsCall(i, j) /\ UNCHANGED qmFrame
    \/ \E i \in QmIndexes, result \in {0, 1} :
          qsCalls = 0 /\ measureQubitCall(i, result) /\ UNCHANGED qmFrame
    \/ \E i \in QmIndexes, type \in GateTypes :
          qsCalls = 0 /\ applyGateCall(i, type) /\ UNCHANGED qmFrame

SpecGates == Init /\ [][NextGates]_vars

(***************************************************************************)
(* The rotations of quantumSimulation. Its sweep calls applyGate with a     *)
(* ROTATION gate of angle (t * Math.PI) / timeSteps on each of the          *)
(* systemQubits qubits, for t = 0, ..., timeSteps - 1.                      *)
(***************************************************************************)
\* Largest timeSteps of a sweep.
MaxTimeSteps == 2

\* An angle of 0: its half has cosine 1 and sine 0.
ZeroAngle == [zero |-> TRUE, cos |-> Unit, sin |-> 0]

\* (t * Math.PI) / timeSteps for t < timeSteps <= MaxTimeSteps: 0 for t = 0,
\* and pi / 2 for t = 1 of 2.
SweepAngle(t, timeSteps) ==
    IF t = 0 THEN ZeroAngle ELSE Angle(SqrtHalf, SqrtHalf)

\* for (i < systemQubits) applyGate(i, {type: 'ROTATION', angle}), qubit by
\* qubit from i on: one iteration t of the sweep.
RECURSIVE rotationSweep(_, _, _, _, _)
rotationSweep(qm, qubits, i, systemQubits, angle) ==
    IF i >= systemQubits THEN QmReturned(qm, "undefined")
    ELSE LET step == applyRotation(qm, qubits, i, angle)
         IN  IF step.threw THEN step
             ELSE rotationSweep(step.qm, qubits, i + 1, systemQubits, angle)

\* The angles of the ROTATION gates applied.
RotationAngles == {ZeroAngle, DefaultAngle, Angle(SqrtHalf, SqrtHalf), Angle(0, Unit)}

\* applyGate(qubitIndex, {type: 'ROTATION', angle})
applyRotationCall(qubitIndex, gateAngle) ==
    /\ qmCalls < MaxQmCalls
    /\ qmCalls' = qmCalls + 1
    /\ QmEnded("applyRotation", qubitIndex, gateAngle,
               applyRotation(quantumMemory, QmQubits, qubitIndex, gateAngle))

\* Iteration t of the sweep of quantumSimulation over systemQubits qubits.
rotationSweepCall(systemQubits, t, timeSteps) ==
    /\ qmCalls < MaxQmCalls
    /\ qmCalls' = qmCalls + 1
    /\ QmEnded("rotationSweep", t, systemQubits,
               rotationSweep(quantumMemory, QmQubits, 0, systemQubits,
                             SweepAngle(t, timeSteps)))

\* A QuantumMemory driven as quantumSimulation drives it (superpositions,
\* entanglements, rotations, measurements), in any order.
NextRotation ==
    \/ \E i \in QmIndexes : createSuperpositionCall(i) /\ UNCHANGED qmFrame
    \/ \E i, j \in QmIndexes : entangleQubitsCall(i, j) /\ UNCHANGED qmFrame
    \/ \E i \in QmIndexes, angle \in RotationAngles :
          applyRotationCall(i, angle) /\ UNCHANGED qmFrame
    \/ \E timeSteps \in 1..MaxTimeSteps, t \in 0..(MaxTimeSteps - 1),
          systemQubits \in 1..QmQubits :
          t < timeSteps /\ rotationSweepCall(systemQubits, t, timeSteps)
                        /\ UNCHANGED qmFrame
    \/ \E i \in QmIndexes, result \in {0, 1} :
          measureQubitCall(i, result) /\ UNCHANGED qmFrame

SpecRotation == Init /\ [][NextRotation]_vars

(***************************************************************************)
(* Claims about ClassicalMemory (checked under SpecCache).                 *)
(***************************************************************************)

\* C1: after any sequence of write and read calls, with any timestamps, no
\* tier holds more entries than its capacity (32 / 256 / 8192 in the code,
\* L1Size / L2Size / L3Size here).
C1_TierCapacity ==
    /\ Len(cacheL1) <= getCacheSize("L1")
    /\ Len(cacheL2) <= getCacheSize("L2")
    /\ Len(cacheL3) <= getCacheSize("L3")

\* The calls so far were writes of pairwise distinct addresses.
OnlyDistinctWrites ==
    /\ \A i \in 1..Len(accessHistory) : accessHistory[i].operation = "WRITE"
    /\ \A i, j \in 1..Len(accessHistory) :
           i # j => accessHistory[i].address # accessHistory[j].address

\* The addresses of the k most recent calls.
LastWritten(k) ==
    {accessHistory[i].address :
        i \in (Len(accessHistory) - k + 1)..Len(accessHistory)}

\* C2: writing N > capacity distinct addresses into an empty cache leaves L1
\* with exactly capacity entries, the most recently written ones.
C2_LRUContent ==
    (OnlyDistinctWrites /\ Len(accessHistory) > getCacheSize("L1")) =>
        /\ Len(cacheL1) = getCacheSize("L1")
        /\ MapKeys(cacheL1) = LastWritten(getCacheSize("L1"))

\* The time of the most recent call (write or read) on an address, from the
\* access log.
LastAccess(a) ==
    LET idx == {i \in 1..Len(accessHistory) : accessHistory[i].address = a}
        last == CHOOSE i \in idx : \A j \in idx : j <= i
    IN  accessHistory[last].timestamp

\* v is the least recently used address of L1, ties broken by insertion order.
IsLeastRecentlyUsed(v) ==
    \A u \in MapKeys(cacheL1) \ {v} :
        \/ LastAccess(v) < LastAccess(u)
        \/ /\ LastAccess(v) = LastAccess(u)
           /\ MapIndex(cacheL1, v) < MapIndex(cacheL1, u)

\* C3: whenever a call evicts an address from L1, that address is the one
\* whose most recent access (write or read, also a read served from the
\* backing store) is the oldest in L1, ties broken by insertion order.
C3_EvictsLeastRecentlyUsed ==
    [][\A v \in MapKeys(cacheL1) \ MapKeys(cacheL1') : IsLeastRecentlyUsed(v)]_vars

(***************************************************************************)
(* Claims about SimulationService (checked under SpecSim and SpecTicks).   *)
(***************************************************************************)

\* A step that is a tick: only simulationStep adds one to stepCount.
IsTick == stepCount' = stepCount + 1

simFieldsButRet ==
    <<now, quantumVars, isRunning, simulationInterval, stepCount, startTime,
      metrics, performanceHistory, currentPerformance, currentAlgorithm,
      classicalMemorySize, timers, timerCount, pendingStarts, lastTick>>

\* C4: a startSimulation call made while the scheduler is running returns
\* success = false with 'Simulation already running' and leaves isRunning,
\* stepCount, startTime, currentAlgorithm, the timer handle, the armed timers
\* and the qubit register as they were.
C4_StartWhileRunning ==
    [][(isRunning /\ StartCall(LifecycleConfigs)) =>
          /\ simRet' = [op |-> "start", success |-> FALSE,
                        message |-> "Simulation already running"]
          /\ UNCHANGED <<isRunning, stepCount, startTime, currentAlgorithm,
                         simulationInterval, timers, quantumStates,
                         entanglementPairs, pendingStarts>>]_vars

\* A start was turned away in a run that has ticked and holds a register.
C4_Witness ==
    /\ simRet.op = "start" /\ ~simRet.success
    /\ simRet.message = "Simulation already running"
    /\ isRunning /\ simulationInterval # NoTimer
    /\ stepCount > 0 /\ Len(quantumStates) > 0
    /\ currentAlgorithm = "grover"

\* C5: a stopSimulation call made while the scheduler is idle returns
\* success = false with 'No simulation running' and changes no state; made
\* while it is running it returns success and leaves the scheduler idle, so
\* that a stop that follows it at once is turned away.
C5_StopWhileIdle ==
    [][stopSimulation =>
          IF isRunning
          THEN simRet'.op = "stop" /\ simRet'.success /\ ~isRunning'
          ELSE /\ simRet' = [op |-> "stop", success |-> FALSE,
                             message |-> "No simulation running"]
               /\ UNCHANGED simFieldsButRet]_vars

\* A run that ticked was stopped, and the stop after it was turned away.
C5_Witness ==
    /\ simRet.op = "stop" /\ ~simRet.success
    /\ ~isRunning /\ timers = {} /\ pendingStarts = {}
    /\ stepCount > 0 /\ timerCount = 1

\* C6: once stopSimulation has returned success, no tick runs until a
\* startSimulation call has returned success.
C6_NoTickAfterStop ==
    [][(simRet.op = "stop" /\ simRet.success) => ~IsTick]_vars

\* C7: a tick whose body throws is caught: isRunning, the timer handle and
\* the armed timers are as before, and the timer is still due to fire.
C7_ThrowingTickIsCaught ==
    [][(IsTick /\ lastTick' = "caught") =>
          /\ UNCHANGED <<isRunning, simulationInterval, timers>>
          /\ timers' # {} /\ pendingStarts' = {}]_vars

\* In a run whose first tick threw, the second tick completed and recorded
\* its sample.
C7_Witness ==
    /\ isRunning /\ simulationInterval # NoTimer
    /\ lastTick = "completed" /\ stepCount = 2
    /\ Len(performanceHistory) = 1 /\ performanceHistory[1].step = 2

\* C8: reset, from any state, ends with the scheduler idle, no timer armed,
\* stepCount 0, the six counters 0, the history empty, no algorithm, no
\* qubit and no entanglement pair; a second reset changes nothing.
C8_ResetClears ==
    [][reset =>
          /\ ~isRunning' /\ timers' = {} /\ simulationInterval' = NoTimer
          /\ stepCount' = 0 /\ metrics' = ZeroMetrics
          /\ performanceHistory' = <<>> /\ currentAlgorithm' = Null
          /\ Len(quantumStates') = 0 /\ Cardinality(entanglementPairs') = 0]_vars

\* C9: performanceHistory never holds more than the cap (1000 in the code,
\* HistoryCap here), and a tick that records a sample appends it after
\* dropping the oldest one when the list is full.
C9_HistoryIsFIFO ==
    [][/\ Len(performanceHistory') <= HistoryCap
       /\ (IsTick /\ lastTick' = "completed") =>
             /\ Len(performanceHistory') > 0
             /\ performanceHistory' =
                    Append(IF Len(performanceHistory) >= HistoryCap
                           THEN Tail(performanceHistory)
                           ELSE performanceHistory,
                           performanceHistory'[Len(performanceHistory')])
             /\ performanceHistory'[Len(performanceHistory')].step = stepCount']_vars

\* The history is full and its oldest sample has been dropped.
C9_Witness ==
    /\ Len(performanceHistory) = HistoryCap
    /\ performanceHistory[1].step = 2
    /\ performanceHistory[HistoryCap].step = HistoryCap + 1
    /\ lastTick = "completed"

(***************************************************************************)
(* Claims about HybridProcessor (checked under SpecProc).                  *)
(***************************************************************************)

\* The record an ended call of executeTask has pushed.
LastRecord == executionHistory[Len(executionHistory)]

\* C10: every executeTask call appends exactly one record to
\* executionHistory, when it ends: a call whose processing returned appends a
\* record with the result and the two operation counts and no error; a call
\* whose processing threw appends a record with the error and failed = true
\* and is ended by that error; no other step changes the history.
C10_OneRecordPerCall ==
    [][IF pendingTasks' # pendingTasks /\ pendingTasks' \subseteq pendingTasks
       THEN \E p \in pendingTasks :
               /\ pendingTasks' = pendingTasks \ {p}
               /\ Len(executionHistory') = Len(executionHistory) + 1
               /\ SubSeq(executionHistory', 1, Len(executionHistory)) = executionHistory
               /\ LastRecord'.taskId = p.call /\ LastRecord'.task = p.task
               /\ procRet'.call = p.call
               /\ IF p.outcome.threw
                  THEN /\ LastRecord'.failed /\ LastRecord'.error = <<p.outcome.error>>
                       /\ LastRecord'.result = <<>>
                       /\ procRet'.threw
                  ELSE /\ ~LastRecord'.failed /\ LastRecord'.error = <<>>
                       /\ LastRecord'.result = <<p.outcome.result>>
                       /\ LastRecord'.quantumOperations = <<p.outcome.quantumOps>>
                       /\ LastRecord'.classicalOperations = <<p.outcome.classicalOps>>
                       /\ ~procRet'.threw
       ELSE UNCHANGED executionHistory]_vars

\* Three calls have ended, one of a task that sums 1 and 2, one that threw
\* while writing its values and one of an undefined task; each left its
\* record.
C10_Witness ==
    /\ Len(executionHistory) = 3 /\ pendingTasks = {} /\ taskCount = 3
    /\ \E i \in 1..3 :
          /\ ~executionHistory[i].failed
          /\ executionHistory[i].result = <<NumberResult(3)>>
          /\ executionHistory[i].classicalOperations = <<4>>
    /\ \E i \in 1..3 :
          /\ executionHistory[i].failed
          /\ executionHistory[i].task = ClassicalTask("SUM", <<1, UndefinedValue>>)
    /\ \E i \in 1..3 :
          /\ executionHistory[i].failed /\ ~executionHistory[i].task.defined
    /\ procRet.op = "executeTask" /\ procRet.threw

(***************************************************************************)
(* Claims about the task paths of HybridProcessor (checked under SpecPaths)*)
(***************************************************************************)

\* A task of the classical path that sums numbers: its type is none of the
\* four named ones and its values hold no undefined.
IsClassicalSum(task) ==
    /\ task.defined /\ task.type \notin NamedTypes
    /\ task.data.defined /\ task.data.hasValues /\ task.data.operation = "SUM"
    /\ \A i \in 1..Len(task.data.values) : task.data.values[i] # UndefinedValue

\* The executeTask call made by this step, if it makes one.
CallMade == CHOOSE p \in pendingTasks' : p \notin pendingTasks

\* What C11 says of the steps of a summing task of the classical path, with
\* the lower bound it puts on classicalOps (0 for none, 1 for "> 0"): the
\* call writes values[i] at data_(i-1), the address i here, and does not
\* touch the quantum memory; when it ends, its record has the sum as the
\* result, quantumOps = 0 and classicalOps = 2 x |values|.
ClassicalSumSteps(least) ==
    /\ (taskCount' = taskCount + 1 /\ IsClassicalSum(CallMade.task)) =>
          LET values == CallMade.task.data.values
          IN  /\ \A i \in 1..Len(values) :
                    /\ i \in DOMAIN memory'
                    /\ memory'[i].data = values[i]
              /\ Len(accessHistory') = Len(accessHistory) + Len(values)
              /\ quantumMemory' = quantumMemory
              /\ ~CallMade.outcome.threw
    /\ (Len(executionHistory') = Len(executionHistory) + 1
          /\ IsClassicalSum(LastRecord'.task)) =>
          LET values == LastRecord'.task.data.values
          IN  /\ ~LastRecord'.failed
              /\ LastRecord'.result = <<NumberResult(SumOf(values, 1))>>
              /\ LastRecord'.quantumOperations = <<0>>
              /\ LastRecord'.classicalOperations = <<2 * Len(values)>>
              /\ 2 * Len(values) >= least

\* C11 (as amended): executeTask with a task.type that is none of
\* QUANTUM_SEARCH, HYBRID_OPTIMIZATION, QUANTUM_SIMULATION and
\* PARALLEL_COMPUTATION runs the classical path: with operation SUM over
\* numbers it returns their sum (6 for [1,2,3]), quantumOps = 0 and
\* classicalOps = 2 x |values| (which is 0 for an empty list), and writes
\* each value to the classical store at data_i.
C11_ClassicalSum == [][ClassicalSumSteps(0)]_vars

\* C11 as stated: the same, with classicalOps = 2 x |values| > 0 for every
\* list of values.
C11_ClassicalSumPositiveOps == [][ClassicalSumSteps(1)]_vars

\* The sum of 1, 2 and 3 has ended with result 6 and six classical
\* operations, the three values are in the store, and a sum over no values
\* has ended with result 0.
C11_Witness ==
    /\ \E i \in 1..Len(executionHistory) :
          /\ executionHistory[i].task = ClassicalTask("SUM", <<1, 2, 3>>)
          /\ executionHistory[i].result = <<NumberResult(6)>>
          /\ executionHistory[i].quantumOperations = <<0>>
          /\ executionHistory[i].classicalOperations = <<6>>
    /\ \E i \in 1..Len(executionHistory) :
          /\ executionHistory[i].task = ClassicalTask("SUM", <<>>)
          /\ executionHistory[i].result = <<NumberResult(0)>>
    /\ \A a \in 1..3 : a \in DOMAIN memory /\ memory[a].data = a

(***************************************************************************)
(* Claims about the gate engines (checked under SpecGates).                *)
(***************************************************************************)

\* C12: entanglement links of QuantumService are symmetric: after any
\* sequence of createQubit, entangle, measure and gate calls, every qubit q
\* with entangledWith = p has a partner p in the register whose
\* entangledWith is q, and both have isEntangled = true.
C12_SymmetricLinks ==
    \A i \in 1..Len(quantumStates) :
        LET q == quantumStates[i]
        IN  q.entangledWith # NoQubit =>
               /\ HasQubit(quantumStates, q.entangledWith)
               /\ GetQubit(quantumStates, q.entangledWith).entangledWith = q.id
               /\ q.isEntangled
               /\ GetQubit(quantumStates, q.entangledWith).isEntangled

\* QuantumService: the step measures the first qubit of the entangle call
\* that has just returned, and leaves the second one in the basis state of
\* the outcome.
ServicePartnerCollapses ==
    (/\ qsRet.op = "entangle" /\ ~qsRet.threw /\ qsRet.id # qsRet.other
     /\ qsCalls' = qsCalls + 1
     /\ qsRet'.op = "measure" /\ qsRet'.id = qsRet.id) =>
        GetQubit(quantumStates', qsRet.other).amp =
            IF qsRet'.measurement = 0 THEN BasisZero ELSE BasisOne

\* QuantumMemory: the step measures the first qubit of the entangleQubits
\* call that has just returned, and leaves the second one in the basis state
\* complementary to the one the measured qubit collapsed to.
MemoryPartnerCollapses ==
    (/\ qmRet.op = "entangleQubits" /\ ~qmRet.threw /\ qmRet.index # qmRet.other
     /\ qmCalls' = qmCalls + 1
     /\ qmRet'.op = "measureQubit" /\ qmRet'.index = qmRet.index) =>
        /\ ~qmRet'.threw
        /\ quantumMemory'.quantumStates[qmRet.index].amplitude =
              (IF qmRet'.value = 1 THEN QmAmp(Unit, 0) ELSE QmAmp(0, Unit))
        /\ quantumMemory'.quantumStates[qmRet.other].amplitude =
              (IF qmRet'.value = 1 THEN QmAmp(0, Unit) ELSE QmAmp(Unit, 0))

\* C13: after entangling q0 and q1 and then measuring q0, q1's amplitudes
\* are a basis state fixed by q0's outcome: in QuantumMemory the one
\* complementary to the state q0 collapsed to, in QuantumService alpha = 1,
\* beta = 0 for outcome 0 and alpha = 0, beta = 1 for outcome 1.
C13_PartnerCollapses ==
    [][ServicePartnerCollapses /\ MemoryPartnerCollapses]_vars

\* C14: Pauli-X is an involution: whenever xGate (QuantumService) or the
\* PAULI_X gate (QuantumMemory.applyGate) has been applied to a qubit,
\* applying it to the same qubit once more gives back the amplitudes the
\* qubit had before the first application, and neither application changes
\* another qubit.
C14_PauliXInvolution ==
    [][/\ (qsCalls' = qsCalls + 1 /\ qsRet'.op = "xGate" /\ ~qsRet'.threw) =>
             /\ xGate(quantumStates', qsRet'.id) = quantumStates
             /\ \A i \in 1..Len(quantumStates) :
                   quantumStates[i].id # qsRet'.id =>
                       /\ quantumStates'[i] = quantumStates[i]
                       /\ xGate(quantumStates', qsRet'.id)[i] = quantumStates[i]
       /\ (qmCalls' = qmCalls + 1 /\ qmRet'.op = "applyGate"
             /\ qmRet'.other = "PAULI_X" /\ ~qmRet'.threw) =>
             LET again == applyGate(quantumMemory', QmQubits, qmRet'.index, "PAULI_X")
             IN  /\ ~again.threw
                 /\ again.qm = quantumMemory
                 /\ \A j \in DOMAIN quantumMemory.quantumStates :
                       j # qmRet'.index =>
                           quantumMemory'.quantumStates[j]
                               = quantumMemory.quantumStates[j]
      ]_vars

\* xGate has just turned a qubit with alpha = 1, beta = 0 into one with
\* alpha = 0, beta = 1, in a register that holds a second qubit in
\* superposition.
C14_Witness ==
    /\ qsRet.op = "xGate" /\ ~qsRet.threw
    /\ Len(quantumStates) >= 2
    /\ GetQubit(quantumStates, qsRet.id).amp = BasisOne
    /\ \E i \in 1..Len(quantumStates) :
          /\ quantumStates[i].id # qsRet.id
          /\ InSuperposition(quantumStates[i].amp)

\* |alpha|^2 + |beta|^2 = 1 for a pair a * 2^(-k/2), b * 2^(-k/2). A pair
\* turned by controlledPhaseGate is not judged: its norm depends on the
\* phase, which the amplitudes of the model do not keep.
IsNormalized(amp) ==
    amp.kind = "complex" \/ amp.a * amp.a + amp.b * amp.b = Pow2(amp.k)

\* C15: in a QuantumService whose qubits were created normalized, after any
\* call of hadamardGate, xGate, zGate, controlledPhaseGate, entangle,
\* measure or applyDecoherence every qubit has |alpha|^2 + |beta|^2 = 1.
C15_Normalized ==
    \A i \in 1..Len(quantumStates) : IsNormalized(quantumStates[i].amp)

\* The step is a call of one of the seven gate-engine operations with an id
\* that is not in the register.
CallWithAbsentId ==
    /\ qsCalls' = qsCalls + 1
    /\ qsRet'.op \in {"hadamardGate", "xGate", "zGate", "controlledPhaseGate",
                      "entangle", "measure", "applyDecoherence"}
    /\ \/ ~HasQubit(quantumStates, qsRet'.id)
       \/ (qsRet'.op \in {"controlledPhaseGate", "entangle"}
             /\ ~HasQubit(quantumStates, qsRet'.other))

\* C16: every gate-engine operation of QuantumService (hadamardGate, xGate,
\* zGate, controlledPhaseGate, entangle, measure, applyDecoherence) called
\* with a qubit id that is not in the register fails with a not-found error
\* and leaves the register unchanged.
C16_AbsentIdFails ==
    [][CallWithAbsentId =>
          /\ qsRet'.threw
          /\ qsRet'.error \in {"Qubit not found", "One or both qubits not found"}
          /\ UNCHANGED <<quantumStates, entanglementPairs>>]_vars

\* The step is a call of a QuantumMemory operation with an index outside
\* 0..qubits-1.
CallOutOfRange ==
    /\ qmCalls' = qmCalls + 1
    /\ \/ qmRet'.index \notin 0..(QmQubits - 1)
       \/ (qmRet'.op = "entangleQubits" /\ qmRet'.other \notin 0..(QmQubits - 1))

\* C17: every QuantumMemory operation (createSuperposition, entangleQubits,
\* measureQubit, applyGate) called with a qubit index outside 0..qubits-1,
\* too large or negative, fails with the 'index out of range' error and
\* leaves quantumStates, superpositionStates and entanglementPairs
\* unchanged.
C17_OutOfRangeFails ==
    [][CallOutOfRange =>
          /\ qmRet'.threw
          /\ qmRet'.error \in {"Qubit index out of range",
                                "Qubit indices out of range"}
          /\ UNCHANGED quantumMemory]_vars

(***************************************************************************)
(* Claims about the calls of ClassicalMemory (checked under SpecMemory).   *)
(***************************************************************************)

\* The calls so far: one or more writes, then one or more reads, each of
\* them served by L1.
WritesThenL1Reads ==
    \E w \in 1..(Len(accessHistory) - 1) :
        /\ \A i \in 1..w : accessHistory[i].operation = "WRITE"
        /\ \A i \in (w + 1)..Len(accessHistory) :
              /\ accessHistory[i].operation = "READ"
              /\ accessHistory[i].cacheLevel = "L1"

\* C18: after the addresses have been written and then N >= 1 reads were
\* issued that are all served by L1, getMemoryStats reports an L1 hit rate
\* of 100% and L2 and L3 hit rates of 0%.
C18_L1HitRate ==
    (memRet.op = "getMemoryStats" /\ WritesThenL1Reads) =>
        /\ IsPercent(memRet.L1.hitRate, 100)
        /\ IsPercent(memRet.L2.hitRate, 0)
        /\ IsPercent(memRet.L3.hitRate, 0)

\* The step is a write call: it adds a WRITE to the access log.
IsWrite ==
    /\ Len(accessHistory') = Len(accessHistory) + 1
    /\ accessHistory'[Len(accessHistory')].operation = "WRITE"

\* C19: write(address, payload) always succeeds, and right after it the
\* backing store maps address to the new payload and L1 holds address with
\* the new payload, whatever the store and the tiers held before.
C19_WriteSucceeds ==
    [][IsWrite =>
          LET address == accessHistory'[Len(accessHistory')].address
          IN  /\ memRet'.op = "write" /\ memRet'.address = address
              /\ ~memRet'.threw
              /\ address \in DOMAIN memory'
              /\ memory'[address].data = NextPayload
              /\ MapHas(cacheL1', address)
              /\ MapGet(cacheL1', address).data = NextPayload]_vars

\* The step is a read call: it adds a READ to the access log.
IsRead ==
    /\ Len(accessHistory') = Len(accessHistory) + 1
    /\ accessHistory'[Len(accessHistory')].operation = "READ"

\* C20: read(address) looks in L1, then L2, then L3, then the backing store
\* and reports the first level that holds the address: the entry with
\* cacheLevel 'L1', 'L2' or 'L3' for a tier hit; the entry with cacheLevel
\* null for an address only the backing store holds, which is also put into
\* L1 and into no other tier; null for an address that is nowhere, and then
\* no tier and no backing entry is changed. (L2 and L3 hold an entry only
\* after a read has found one there, so from the state after construction
\* the hits are those of L1 and of the backing store.)
C20_ReadOrder ==
    [][IsRead =>
          LET address == accessHistory'[Len(accessHistory')].address
          IN  /\ memRet'.op = "read"
              /\ IF MapHas(cacheL1, address)
                 THEN /\ memRet'.found /\ memRet'.cacheLevel = "L1"
                      /\ memRet'.entry.data = MapGet(cacheL1, address).data
                 ELSE IF MapHas(cacheL2, address)
                 THEN /\ memRet'.found /\ memRet'.cacheLevel = "L2"
                      /\ memRet'.entry.data = MapGet(cacheL2, address).data
                 ELSE IF MapHas(cacheL3, address)
                 THEN /\ memRet'.found /\ memRet'.cacheLevel = "L3"
                      /\ memRet'.entry.data = MapGet(cacheL3, address).data
                 ELSE IF address \in DOMAIN memory
                 THEN /\ memRet'.found /\ memRet'.cacheLevel = Null
                      /\ memRet'.entry.data = memory[address].data
                      /\ MapHas(cacheL1', address)
                      /\ MapGet(cacheL1', address).data = memory[address].data
                      /\ UNCHANGED <<cacheL2, cacheL3>>
                 ELSE /\ ~memRet'.found
                      /\ UNCHANGED <<memory, cacheL1, cacheL2, cacheL3>>]_vars

\* The last call was a read served by the backing store alone, of an
\* address that L1 had evicted and now holds again, and an earlier read
\* was served by L1.
C20_Witness ==
    /\ memRet.op = "read" /\ memRet.found /\ memRet.cacheLevel = Null
    /\ accessHistory # <<>>
    /\ accessHistory[Len(accessHistory)].operation = "READ"
    /\ MapHas(cacheL1, accessHistory[Len(accessHistory)].address)
    /\ \E i \in 1..(Len(accessHistory) - 1) :
          /\ accessHistory[i].operation = "READ"
          /\ accessHistory[i].cacheLevel = "L1"

\* The tiers that hold the address.
TiersHolding(a) ==
    {level \in {"L1", "L2", "L3"} :
        \/ level = "L1" /\ MapHas(cacheL1, a)
        \/ level = "L2" /\ MapHas(cacheL2, a)
        \/ level = "L3" /\ MapHas(cacheL3, a)}

\* C21: at every reachable state of ClassicalMemory each address is held by
\* at most one of the tier maps L1, L2 and L3 (it may also be in the backing
\* store).  (No call puts an entry into L3, and L2 gets one only on an L3
\* hit, so the tiers below L1 stay empty from the state after construction.)
C21_OneTierPerAddress ==
    \A a \in Addresses : Cardinality(TiersHolding(a)) <= 1

\* The last call was a read served by the backing store that put its
\* address back into L1, while another written address is in the backing
\* store only.
C21_Witness ==
    /\ memRet.op = "read" /\ memRet.found /\ memRet.cacheLevel = Null
    /\ accessHistory # <<>>
    /\ accessHistory[Len(accessHistory)].operation = "READ"
    /\ TiersHolding(accessHistory[Len(accessHistory)].address) = {"L1"}
    /\ \E a \in DOMAIN memory : TiersHolding(a) = {}

(***************************************************************************)
(* Claims about the scheduler's counters (checked under SpecMetrics).      *)
(***************************************************************************)

\* The step is a reset call.
IsResetStep ==
    /\ simRet'.op = "reset"
    /\ stepCount' = 0 /\ ~isRunning' /\ currentAlgorithm' = Null
    /\ quantumStates' = <<>> /\ performanceHistory' = <<>>

\* C22: the six metric counters (quantumOps, classicalOps, memoryReads,
\* memoryWrites, coherenceEvents, entanglementEvents) never decrease across
\* ticks, start, stop and executeCircuit calls; only reset sets them back
\* to 0.
C22_CountersMonotonic ==
    [][IF IsResetStep THEN metrics' = ZeroMetrics
       ELSE \A counter \in DOMAIN metrics : metrics'[counter] >= metrics[counter]]_vars

\* A second start has been let in after ticks of the first run, every
\* counter but entanglementEvents has grown and has been kept by the start,
\* and an executeCircuit call has just returned.
C22_Witness ==
    /\ timerCount = 2 /\ isRunning /\ stepCount = 0
    /\ simRet.op = "executeCircuit" /\ simRet.success
    /\ metrics.quantumOps >= 2 /\ metrics.classicalOps >= 1
    /\ metrics.memoryReads >= 1 /\ metrics.memoryWrites >= 1
    /\ metrics.coherenceEvents >= 2

(***************************************************************************)
(* Claims about startSimulation's result (checked under SpecSim).          *)
(***************************************************************************)

\* The step is the return of the suspended startSimulation call p with a
\* success result.
StartSucceeds(p) ==
    /\ p \in pendingStarts
    /\ pendingStarts' = pendingStarts \ {p}
    /\ simRet'.op = "start" /\ simRet'.success

\* The register holds exactly n qubits, q0 .. q{n-1}, none of them
\* entangled, and no entanglement pair.
FreshRegister(qs, pairs, n) ==
    /\ Len(qs) = n
    /\ \A i \in 1..Len(qs) :
          /\ qs[i].id = i - 1
          /\ ~qs[i].isEntangled
          /\ qs[i].entangledWith = NoQubit
    /\ pairs = {}

\* C23: a successful startSimulation from Idle leaves the scheduler Running
\* with stepCount = 0, the selected algorithm stored, and a quantum register
\* that holds exactly config.qubits qubits (q0 .. q{n-1}), none entangled
\* and with no entanglement pair left over from an earlier run.
C23_StartInitializes ==
    [][\A p \in pendingStarts :
          StartSucceeds(p) =>
              /\ isRunning'
              /\ stepCount' = 0
              /\ currentAlgorithm' = p.config.algorithm
              /\ FreshRegister(quantumStates', entanglementPairs',
                               p.config.qubits)]_vars

\* The step is a tick: a step that is neither a call, which sets the
\* returned value (a repeated reset sets the same one), nor the
\* continuation of a suspended start.
IsTickStep ==
    /\ timers # {} /\ pendingStarts = {}
    /\ UNCHANGED <<simRet, pendingStarts, timers, isRunning, timerCount>>
    /\ <<stepCount, lastTick, metrics, quantumStates, performanceHistory>>
           # <<stepCount', lastTick', metrics', quantumStates', performanceHistory'>>
    /\ ~IsResetStep

\* The step is a stopSimulation call on a Running scheduler.
IsRunningStop == isRunning /\ simRet'.op = "stop" /\ ~isRunning' /\ simRet' # simRet

\* C24: stopSimulation on a Running scheduler returns stats whose steps
\* value equals the number of ticks executed since the most recent
\* successful startSimulation (ticks that threw included), and each tick
\* increases stepCount by exactly one.  The count of ticks is stepCount:
\* it is 0 when the scheduler becomes Running and when the start returns
\* its success, every tick adds one to it, and no other step changes it
\* while the scheduler is Running.
C24_StepsCountTicks ==
    [][/\ IsTickStep => stepCount' = stepCount + 1
       /\ (~isRunning /\ isRunning') => stepCount' = 0
       /\ \A p \in pendingStarts : StartSucceeds(p) => stepCount' = 0
       /\ (isRunning /\ isRunning' /\ ~IsTickStep) => stepCount' = stepCount
       /\ IsRunningStop =>
              /\ simRet'.success
              /\ simRet'.steps = stepCount
              /\ stepCount' = stepCount]_vars

\* The second run has been stopped after two ticks that both threw, the
\* first run having made three ticks: the stop reports 2 steps.
C24_Witness ==
    /\ timerCount = 2 /\ ~isRunning /\ timers = {}
    /\ simRet.op = "stop" /\ simRet.success /\ simRet.steps = 2
    /\ lastTick = "caught"
    /\ performanceHistory # <<>>
    /\ performanceHistory[Len(performanceHistory)].step = 3

(***************************************************************************)
(* Claims about the algorithm steps (checked under SpecSteps).             *)
(***************************************************************************)

\* The number of named steps in the algorithm's catalog entry.
CycleLength(algorithm) == Len(AlgorithmSteps(algorithm))

\* C25: when an algorithm is selected, the step executed by a tick is step
\* number (stepCount mod cycleLength) of that algorithm's step list, where
\* cycleLength is the number of named steps in the algorithm's catalog
\* entry (shor 4, grover 4, qft 3, vqe 4): a tick does to the register and
\* to the counters what the algorithm's step of that number does, stepCount
\* being the count the tick itself has raised.
C25_StepOfCycle ==
    [][(IsTickStep /\ currentAlgorithm \in AlgorithmKeys /\ lastTick' = "completed") =>
          \E outcome \in {0, 1} :
             \E expected \in
                 {applyDecoherence(
                      executeAlgorithmStep(quantumStates, entanglementPairs, metrics,
                          stepCount' % CycleLength(currentAlgorithm), outcome))} :
                /\ expected.valid
                /\ quantumStates' = expected.qs
                /\ metrics' = expected.metrics]_vars

(***************************************************************************)
(* Claims about the optimization path (checked under SpecOptimize).        *)
(***************************************************************************)

\* The record is that of an optimization that returned.
IsOptimization(record) ==
    /\ ~record.failed
    /\ record.task.type = "HYBRID_OPTIMIZATION"

\* C26: hybridOptimization's post-processing clamps every measured value
\* into the caller's bounds: for every index i with a constraint {min, max}
\* where min <= max (min = 0 or max = 0 included), the returned solution[i]
\* satisfies min <= solution[i] <= max.
C26_SolutionWithinBounds ==
    \A k \in 1..Len(executionHistory) :
        IsOptimization(executionHistory[k]) =>
            LET constraints == executionHistory[k].task.data.constraints
                solution == executionHistory[k].result[1].array
            IN  \A i \in 1..Len(solution) :
                   (/\ i <= Len(constraints)
                    /\ constraints[i].defined
                    /\ constraints[i].min <= constraints[i].max) =>
                       /\ constraints[i].min <= solution[i]
                       /\ solution[i] <= constraints[i].max

(***************************************************************************)
(* Claims about overlapping executeTask calls (checked under SpecParallel). *)
(***************************************************************************)

\* C27: the register and cache mutations of one executeTask call are never
\* interleaved with those of another call made before the first one's
\* promise settled: while a call is suspended between two rounds of
\* parallelComputation's loop, with writes behind it and writes to come, no
\* step of another call changes the memory, the cache, the access history or
\* the qubits.
C27_NoInterleaving ==
    [][\A p \in pendingTasks :
          (InLoop(p) /\ p \in pendingTasks') =>
              UNCHANGED <<memory, cacheL1, accessHistory, quantumMemory>>]_vars

(***************************************************************************)
(* Claims about the controller and the processor it drives (checked under   *)
(* SpecController).                                                         *)
(***************************************************************************)

\* C28: a start request made while the processor is running is answered with
\* a failure, and so is a stop request made while it is not running.
C28_StartStopErrors ==
    [][response'.request # response.request =>
          /\ (response'.op = "startProcessor" /\ processorIsRunning) =>
                 ~response'.success
          /\ (response'.op = "stopProcessor" /\ ~processorIsRunning) =>
                 ~response'.success]_vars

\* The fields a task path reads from the data of its task.
HasRequiredFields(task) ==
    /\ task.data.defined
    /\ CASE task.type = "QUANTUM_SEARCH" -> task.data.hasSearchSpace
         [] task.type = "HYBRID_OPTIMIZATION" ->
                task.data.hasProblem /\ task.data.hasConstraints
         [] task.type = "PARALLEL_COMPUTATION" -> task.data.hasTasks
         [] OTHER -> task.data.hasValues

\* A task without type, without data or without a required field.
Malformed(task) ==
    ~task.defined \/ task.type = Null \/ ~HasRequiredFields(task)

\* C29: a malformed task is answered with a validation failure (status 400)
\* and is not handed to a task path: the step that takes the request makes
\* no executeTask call and changes neither the cache nor the qubits, and no
\* record of the history is about a malformed task.
C29_MalformedRejected ==
    [][/\ \A p \in pendingTasks' \ pendingTasks : ~Malformed(p.task)
       /\ (response'.request # response.request /\ response'.op = "executeTask"
           /\ response'.status # 400) =>
              \A p \in pendingTasks \ pendingTasks' : ~Malformed(p.task)]_vars

\* C30: getExecutionHistory(limit) returns the last min(limit, length)
\* records of the history in their order, for every limit >= 0 (none for
\* limit 0), and leaves the history as it is.
C30_LastRecords ==
    [][(procRet'.op = "getExecutionHistory" /\ procRet' # procRet) =>
          /\ \E n \in {Min(procRet'.limit, Len(executionHistory))} :
                procRet'.history = SubSeq(executionHistory,
                                          Len(executionHistory) - n + 1,
                                          Len(executionHistory))
          /\ UNCHANGED executionHistory]_vars

(***************************************************************************)
(* Claims about the armed timers (checked under SpecSim).                   *)
(***************************************************************************)

\* C31: whenever no startSimulation call is suspended, at most one tick
\* timer is armed and the scheduler is idle (isRunning = false) exactly when
\* no timer is armed; stop and reset calls made while a start was suspended,
\* and a second start made after them, are among the calls.
C31_OneTimerWhileRunning ==
    pendingStarts = {} =>
        /\ Cardinality(timers) <= 1
        /\ ~isRunning <=> timers = {}

(***************************************************************************)
(* Claims about the lower tiers and the entries read (checked under         *)
(* SpecCache).                                                              *)
(***************************************************************************)

\* C32: L2 and L3 are empty in every reachable state: no write or read puts
\* an entry into them, no read is served with cacheLevel L2 or L3, and the
\* hit counts of L2 and L3 stay 0.
C32_LowerTiersEmpty ==
    /\ cacheL2 = <<>> /\ cacheL3 = <<>>
    /\ hitRates.L2 = 0 /\ hitRates.L3 = 0
    /\ \A i \in 1..Len(accessHistory) :
          accessHistory[i].cacheLevel \notin {"L2", "L3"}
    /\ (memRet.op = "read" /\ memRet.found) => memRet.cacheLevel \notin {"L2", "L3"}

\* L1 is full, a read was served by L1, and an address written earlier was
\* read from the backing store after its eviction from L1.
C32_Witness ==
    /\ Len(cacheL1) = getCacheSize("L1")
    /\ hitRates.L1 > 0
    /\ \E i \in 1..Len(accessHistory) :
          /\ accessHistory[i].operation = "READ"
          /\ ~accessHistory[i].cacheHit
          /\ \E j \in 1..(i - 1) :
                /\ accessHistory[j].operation = "WRITE"
                /\ accessHistory[j].address = accessHistory[i].address

\* The positions in the access log of the writes to address a.
WritesTo(a) ==
    {j \in 1..Len(accessHistory) :
        accessHistory[j].operation = "WRITE" /\ accessHistory[j].address = a}

\* The step is a read call: it appends a READ to the access log.
IsReadStep ==
    /\ Len(accessHistory') = Len(accessHistory) + 1
    /\ accessHistory'[Len(accessHistory')].operation = "READ"

\* C33: read(a) returns the payload of the most recent write(a, payload), or
\* null when a was never written, whichever tier or the backing store serves
\* it and whatever was evicted in between. (The payload of a write is its
\* position in the access log.)
C33_ReadYourWrites ==
    [][IsReadStep =>
          \E a \in {accessHistory'[Len(accessHistory')].address} :
              IF WritesTo(a) = {} THEN ~memRet'.found
              ELSE /\ memRet'.found
                   /\ memRet'.entry.data \in WritesTo(a)
                   /\ \A j \in WritesTo(a) : j <= memRet'.entry.data]_vars

\* The last call read, from the backing store, an address that was written
\* twice and evicted from L1 since.
C33_Witness ==
    /\ memRet.op = "read" /\ memRet.found
    /\ Len(accessHistory) > 0
    /\ accessHistory[Len(accessHistory)].operation = "READ"
    /\ ~accessHistory[Len(accessHistory)].cacheHit
    /\ Cardinality(WritesTo(accessHistory[Len(accessHistory)].address)) >= 2

\* The reads of address a logged after its most recent write.
ReadsSinceWrite(log, a) ==
    {i \in 1..Len(log) :
        /\ log[i].operation = "READ" /\ log[i].address = a
        /\ \A j \in i..Len(log) : ~(log[j].operation = "WRITE" /\ log[j].address = a)}

\* C34: the accessCount of the entry read(a) returns is the number of
\* read(a) calls since the most recent write(a), this call included,
\* whatever was evicted and promoted again in between.
C34_AccessCountCountsReads ==
    [][(IsReadStep /\ memRet'.found) =>
          memRet'.entry.accessCount =
              Cardinality(ReadsSinceWrite(accessHistory',
                              accessHistory'[Len(accessHistory')].address))]_vars

(***************************************************************************)
(* Claims about the entanglements made by ticks (checked under             *)
(* SpecEntangle).                                                          *)
(***************************************************************************)

\* The pairs of the register that name the qubit id.
PairsOf(pairs, id) == {pair \in pairs : id \in {pair[1], pair[2]}}

\* Every qubit has at most one partner, which is another qubit of the
\* register that points back at it, and is named in at most one pair.
OnePartnerEach ==
    \A i \in 1..Len(quantumStates) :
        \E q \in {quantumStates[i]} :
            /\ Cardinality(PairsOf(entanglementPairs, q.id)) <= 1
            /\ q.isEntangled <=> q.entangledWith # NoQubit
            /\ q.isEntangled =>
                  /\ q.entangledWith # q.id
                  /\ HasQubit(quantumStates, q.entangledWith)
                  /\ GetQubit(quantumStates, q.entangledWith).entangledWith = q.id
                  /\ Cardinality(PairsOf(entanglementPairs, q.id)) = 1

\* C35 as stated: under ticks alone every qubit has at most one partner, no
\* qubit is its own partner, and entanglementEvents is the number of pairs
\* recorded since the last reset of the register.
C35_TickEntanglement ==
    /\ OnePartnerEach
    /\ metrics.entanglementEvents = Cardinality(entanglementPairs)

\* C35, amended: a tick entangles only two distinct qubits that are both
\* unentangled, so every qubit has at most one partner and none is its own;
\* entanglementEvents counts the pairs made since the last reset() call: a
\* tick adds one exactly when it records a pair, and startSimulation, which
\* empties the register, keeps the count, so the count is at least the
\* number of pairs in the register; no other step changes the pairs.
C35_TickEntanglementSinceReset ==
    [][/\ OnePartnerEach'
       /\ metrics'.entanglementEvents >= Cardinality(entanglementPairs')
       /\ IsTick =>
             /\ entanglementPairs \subseteq entanglementPairs'
             /\ Cardinality(entanglementPairs' \ entanglementPairs) <= 1
             /\ metrics'.entanglementEvents = metrics.entanglementEvents
                    + Cardinality(entanglementPairs' \ entanglementPairs)
             /\ \A pair \in entanglementPairs' \ entanglementPairs :
                   /\ pair[1] # pair[2]
                   /\ ~GetQubit(quantumStates, pair[1]).isEntangled
                   /\ ~GetQubit(quantumStates, pair[2]).isEntangled
       /\ (~IsTick /\ ~IsResetStep) =>
             metrics'.entanglementEvents = metrics.entanglementEvents
       /\ ~IsTick => entanglementPairs' \in {entanglementPairs, {}}]_vars

\* In a second run a tick has entangled two of the three qubits, after a
\* tick of the first run had done so: the register holds one pair, the
\* count is 2, and the third qubit is unentangled.
C35_Witness ==
    /\ timerCount = 2 /\ isRunning /\ stepCount >= 1
    /\ Cardinality(entanglementPairs) = 1
    /\ metrics.entanglementEvents = 2
    /\ \E i \in 1..Len(quantumStates) : ~quantumStates[i].isEntangled

(***************************************************************************)
(* Claims about repeated measurements, decoherence and rotations (checked   *)
(* under SpecGates).                                                        *)
(***************************************************************************)

\* QuantumService: the step measures the qubit that the call before it has
\* measured; it returns the same outcome and leaves the same amplitudes.
ServiceMeasureRepeats ==
    (/\ qsRet.op = "measure" /\ ~qsRet.threw
     /\ qsCalls' = qsCalls + 1
     /\ qsRet'.op = "measure" /\ qsRet'.id = qsRet.id) =>
        /\ ~qsRet'.threw
        /\ qsRet'.measurement = qsRet.measurement
        /\ GetQubit(quantumStates', qsRet.id).amp = GetQubit(quantumStates, qsRet.id).amp

\* QuantumMemory: the same for two measureQubit calls in a row.
MemoryMeasureRepeats ==
    (/\ qmRet.op = "measureQubit" /\ ~qmRet.threw
     /\ qmCalls' = qmCalls + 1
     /\ qmRet'.op = "measureQubit" /\ qmRet'.index = qmRet.index) =>
        /\ ~qmRet'.threw
        /\ qmRet'.value = qmRet.value
        /\ quantumMemory'.quantumStates[qmRet.index].amplitude =
               quantumMemory.quantumStates[qmRet.index].amplitude

\* C36: measuring the same qubit twice in a row, with no operation in
\* between, returns the same outcome both times and leaves the qubit in the
\* same collapsed state, for QuantumService.measure and for
\* QuantumMemory.measureQubit, whatever is drawn.
C36_MeasurementRepeatable ==
    [][ServiceMeasureRepeats /\ MemoryMeasureRepeats]_vars

\* The step is a call of QuantumService.applyDecoherence.
IsDecohereStep == qsCalls' = qsCalls + 1 /\ qsRet'.op = "applyDecoherence"

UnitNorm(amp) == amp.a * amp.a + amp.b * amp.b = Pow2(amp.k)

\* The amplitudes after are those before divided by a positive number: the
\* zeros and the signs are kept.
SameDirection(before, after) ==
    /\ (after.a = 0) <=> (before.a = 0)
    /\ (after.b = 0) <=> (before.b = 0)
    /\ after.a * before.a >= 0
    /\ after.b * before.b >= 0

IsZeroRotation ==
    /\ qmCalls' = qmCalls + 1
    /\ qmRet'.op = "applyRotation" /\ ~qmRet'.threw
    /\ qmRet'.other.zero

\* The step is the first iteration (t = 0) of a rotation sweep.
IsFirstSweepIteration ==
    /\ qmCalls' = qmCalls + 1
    /\ qmRet'.op = "rotationSweep" /\ ~qmRet'.threw
    /\ qmRet'.index = 0

\* The amplitudes of every qubit of the memory are as before the step.
AmplitudesKept ==
    \A i \in DOMAIN quantumMemory.quantumStates :
        quantumMemory'.quantumStates[i].amplitude =
            quantumMemory.quantumStates[i].amplitude

\* C38: QuantumMemory.applyGate with a ROTATION gate of angle 0 leaves the
\* amplitudes of the qubit as they are, and so the first iteration (step 0,
\* angle 0) of the rotation sweep of quantumSimulation leaves the amplitudes
\* of every qubit as they are.
C38_ZeroRotationIsIdentity ==
    [][(IsZeroRotation \/ IsFirstSweepIteration) => AmplitudesKept]_vars

====
